---- MODULE Spec2Model ----
(***************************************************************************)
(* Verification model of the JITOS/loom deterministic event core.          *)
(*                                                                         *)
(*   - crates/jitos-core/src/canonical.rs : canonical CBOR codec           *)
(*   - crates/jitos-core/src/events.rs    : event envelope, DAG validation *)
(*                                                                         *)
(* Bytes are integers 0..255.  Unsigned arguments of CBOR headers are kept *)
(* as big-endian byte strings without leading zeros (so that 64-bit values *)
(* are exact); NatOf converts the small ones to numbers.                   *)
(***************************************************************************)
EXTENDS Integers, Sequences, FiniteSets, TLC

----------------------------------------------------------------------------
(* Generic helpers                                                         *)

Range(s) == { s[i] : i \in DOMAIN s }

Min2(a, b) == IF a <= b THEN a ELSE b

\* `let v = x;` followed by F(v): x is evaluated once, where it is bound
LetIn(x, F(_)) == CHOOSE y \in { F(v) : v \in { x } } : TRUE

\* Lexicographic order on byte strings: Ord for Vec<u8> / [u8].
RECURSIVE BytesLess(_, _)
BytesLess(a, b) ==
    IF Len(b) = 0 THEN FALSE
    ELSE IF Len(a) = 0 THEN TRUE
    ELSE IF a[1] # b[1] THEN a[1] < b[1]
    ELSE BytesLess(Tail(a), Tail(b))

\* Big-endian magnitude without leading zero bytes; zero is <<>>.
RECURSIVE Strip(_)
Strip(s) == IF Len(s) > 0 /\ s[1] = 0 THEN Strip(Tail(s)) ELSE s

\* A magnitude of at most three bytes as a number (< 2^24).
IsSmall(mag) == Len(mag) <= 3

RECURSIVE NatOf(_)
NatOf(mag) == IF Len(mag) = 0 THEN 0
              ELSE (NatOf(SubSeq(mag, 1, Len(mag) - 1)) * 256) + mag[Len(mag)]

RECURSIVE MagOf(_)
MagOf(n) == IF n = 0 THEN <<>> ELSE Append(MagOf(n \div 256), n % 256)

\* Left-pad a magnitude with zero bytes to exactly w bytes, keeping the low
\* w bytes when it is longer (the `as u16/u32/u64` truncating casts).
RECURSIVE PadTo(_, _)
PadTo(mag, w) ==
    IF Len(mag) > w THEN SubSeq(mag, Len(mag) - w + 1, Len(mag))
    ELSE IF Len(mag) = w THEN mag
    ELSE PadTo(<<0>> \o mag, w)

----------------------------------------------------------------------------
(* canonical.rs : logical values (ciborium::Value)                         *)
(*   [t |-> "bool", v], [t |-> "null"], [t |-> "int", neg, arg],           *)
(*   [t |-> "float", bits], [t |-> "bytes", b], [t |-> "text", b],         *)
(*   [t |-> "array", items], [t |-> "map", entries (pairs <<k, v>>)],      *)
(*   [t |-> "tag"].  An integer is kept in CBOR form: its value is arg     *)
(*   when neg is FALSE and -1 - arg when neg is TRUE.                      *)

VBool(b)      == [t |-> "bool", v |-> b]
VNull         == [t |-> "null"]
VInt(neg, a)  == [t |-> "int", neg |-> neg, arg |-> a]
VFloat(bits)  == [t |-> "float", bits |-> bits]
VBytes(b)     == [t |-> "bytes", b |-> b]
VText(b)      == [t |-> "text", b |-> b]
VArray(items) == [t |-> "array", items |-> items]
VMap(entries) == [t |-> "map", entries |-> entries]
VNone         == [t |-> "none"]

\* fn write_major
WriteMajor(major, mag) ==
    LET m == major * 32 IN
    IF Len(mag) <= 1 /\ NatOf(mag) <= 23 THEN << m + NatOf(mag) >>
    ELSE IF Len(mag) <= 1 THEN << m + 24 >> \o PadTo(mag, 1)
    ELSE IF Len(mag) = 2 THEN << m + 25 >> \o mag
    ELSE IF Len(mag) <= 4 THEN << m + 26 >> \o PadTo(mag, 4)
    ELSE << m + 27 >> \o PadTo(mag, 8)

\* fn enc_len
EncLen(major, len) == WriteMajor(major, MagOf(len))

\* fn enc_int, on the CBOR form of the integer
EncInt(neg, arg) == WriteMajor(IF neg THEN 1 ELSE 0, arg)

\* IEEE-754 binary64 fields of the eight big-endian bytes of a float.
FSign(bits)     == bits[1] \div 128
FExp(bits)      == (bits[1] % 128) * 16 + (bits[2] \div 16)
FMantHi(bits)   == bits[2] % 16
FMantZero(bits) == FMantHi(bits) = 0 /\ \A i \in 3..8 : bits[i] = 0
FIsNaN(bits)       == FExp(bits) = 2047 /\ ~FMantZero(bits)
FIsInf(bits)       == FExp(bits) = 2047 /\ FMantZero(bits)
FIsZero(bits)      == FExp(bits) = 0 /\ FMantZero(bits)
FIsSubnormal(bits) == FExp(bits) = 0 /\ ~FMantZero(bits)
FIsFinite(bits)    == FExp(bits) # 2047

CanonNaN == <<127, 248, 0, 0, 0, 0, 0, 0>>
PlusZero == <<0, 0, 0, 0, 0, 0, 0, 0>>

\* The 52 mantissa bits below the implicit one, most significant first.
MantBit(bits, k) ==
    IF k <= 4 THEN (FMantHi(bits) \div (2 ^ (4 - k))) % 2
    ELSE LET j == k - 5 IN (bits[3 + (j \div 8)] \div (2 ^ (7 - (j % 8)))) % 2

\* f.fract() == 0.0 for a finite float
FIsIntegral(bits) ==
    \/ FIsZero(bits)
    \/ /\ FExp(bits) >= 1023
       /\ \A k \in 1..52 : k > FExp(bits) - 1023 => MantBit(bits, k) = 0

\* fn fits_i128 : MIN..=MAX with MAX = 2^127 and MIN = -2^127 as f64
FitsI128(bits) ==
    \/ FExp(bits) < 1023 + 127
    \/ FExp(bits) = 1023 + 127 /\ FMantZero(bits)

\* fn float_should_be_int
FloatShouldBeInt(bits) == FIsFinite(bits) /\ FIsIntegral(bits) /\ FitsI128(bits)

\* fn canonicalize_f64
CanonicalizeF64(bits) ==
    IF FIsNaN(bits) THEN CanonNaN
    ELSE IF FIsSubnormal(bits) THEN PlusZero
    ELSE IF FIsZero(bits) THEN PlusZero
    ELSE bits

\* Magnitude bits (most significant first) of a finite integral float >= 1.
FloatMagBits(bits) ==
    LET e == FExp(bits) - 1023 IN
    [ i \in 1..(e + 1) |-> IF i = 1 THEN 1
                           ELSE IF i - 1 <= 52 THEN MantBit(bits, i - 1) ELSE 0 ]

RECURSIVE BitsToNat(_)
BitsToNat(bs) == IF Len(bs) = 0 THEN 0
                 ELSE (BitsToNat(SubSeq(bs, 1, Len(bs) - 1)) * 2) + bs[Len(bs)]

RECURSIVE BitsToMag(_)
BitsToMag(bs) ==
    IF Len(bs) = 0 THEN <<>>
    ELSE IF Len(bs) <= 8 THEN << BitsToNat(bs) >>
    ELSE Append(BitsToMag(SubSeq(bs, 1, Len(bs) - 8)),
                BitsToNat(SubSeq(bs, Len(bs) - 7, Len(bs))))

\* magnitude - 1 on big-endian bytes (magnitude > 0)
RECURSIVE MagDec(_)
MagDec(mag) ==
    LET n == Len(mag) IN
    IF mag[n] > 0 THEN Strip([mag EXCEPT ![n] = mag[n] - 1])
    ELSE Strip(Append(MagDec(SubSeq(mag, 1, n - 1)), 255))

AllOnes(w) == [ i \in 1..w |-> 255 ]

\* fn enc_float
EncFloat(bits) ==
    LET c == CanonicalizeF64(bits) IN
    IF FIsFinite(c) /\ FIsIntegral(c) THEN
        IF FIsZero(c) THEN EncInt(FALSE, <<>>)
        ELSE IF FitsI128(c) THEN
            \* `canonical_f as i128` saturates at +-2^127; the round trip
            \* `i as f64 == canonical_f` succeeds for every such float.
            IF FExp(c) = 1023 + 127
            THEN EncInt(FSign(c) = 1, Strip(<<127>> \o AllOnes(15)))
            ELSE LET mag == Strip(BitsToMag(FloatMagBits(c))) IN
                 IF FSign(c) = 1 THEN EncInt(TRUE, MagDec(mag))
                 ELSE EncInt(FALSE, mag)
        ELSE <<251>> \o c
    ELSE <<251>> \o c

\* Insert an encoded map entry into a list sorted by encoded key
\* (buf.sort_by is stable: equal keys keep their input order).
RECURSIVE InsertEntry(_, _)
InsertEntry(sorted, e) ==
    IF Len(sorted) = 0 THEN << e >>
    ELSE IF BytesLess(e[1], sorted[Len(sorted)][1])
         THEN Append(InsertEntry(SubSeq(sorted, 1, Len(sorted) - 1), e),
                     sorted[Len(sorted)])
         ELSE Append(sorted, e)

\* Variant that leaves the entries in the order given
SortEntriesKeepsOrder(buf) == buf

RECURSIVE SortEntries(_)
SortEntries(buf) ==
    IF Len(buf) = 0 THEN <<>>
    ELSE InsertEntry(SortEntries(SubSeq(buf, 1, Len(buf) - 1)), buf[Len(buf)])

RECURSIVE Concat(_)
Concat(ss) == IF Len(ss) = 0 THEN <<>> ELSE ss[1] \o Concat(Tail(ss))

EncOk(b)   == [err |-> "Ok", bytes |-> b]
EncErr(e)  == [err |-> e, bytes |-> <<>>]

FirstErr(rs) ==
    IF \E i \in DOMAIN rs : rs[i].err # "Ok"
    THEN rs[CHOOSE i \in DOMAIN rs :
              rs[i].err # "Ok" /\ \A j \in 1..(i - 1) : rs[j].err = "Ok"].err
    ELSE "Ok"

\* fn enc_value
RECURSIVE EncValue(_)
EncValue(v) ==
    CASE v.t = "bool"  -> EncOk(<< IF v.v THEN 245 ELSE 244 >>)
      [] v.t = "null"  -> EncOk(<<246>>)
      [] v.t = "int"   -> EncOk(EncInt(v.neg, v.arg))
      [] v.t = "float" -> EncOk(EncFloat(v.bits))
      [] v.t = "text"  -> EncOk(EncLen(3, Len(v.b)) \o v.b)
      [] v.t = "bytes" -> EncOk(EncLen(2, Len(v.b)) \o v.b)
      [] v.t = "array" ->
            LET rs == [ i \in DOMAIN v.items |-> EncValue(v.items[i]) ] IN
            IF FirstErr(rs) # "Ok" THEN EncErr(FirstErr(rs))
            ELSE EncOk(EncLen(4, Len(v.items))
                       \o Concat([ i \in DOMAIN rs |-> rs[i].bytes ]))
      [] v.t = "map" ->
            LET ks  == [ i \in DOMAIN v.entries |-> EncValue(v.entries[i][1]) ]
                buf == SortEntries([ i \in DOMAIN v.entries |->
                                        << ks[i].bytes, v.entries[i][2] >> ])
                vs  == [ i \in DOMAIN buf |-> EncValue(buf[i][2]) ]
            IN  IF FirstErr(ks) # "Ok" THEN EncErr(FirstErr(ks))
                ELSE IF \E i \in 1..(Len(buf) - 1) : buf[i][1] = buf[i + 1][1]
                     THEN EncErr("DuplicateKey")
                ELSE IF FirstErr(vs) # "Ok" THEN EncErr(FirstErr(vs))
                ELSE EncOk(EncLen(5, Len(buf))
                           \o Concat([ i \in DOMAIN buf |->
                                          buf[i][1] \o vs[i].bytes ]))
      [] v.t = "tag"   -> EncErr("Tag")
      [] OTHER         -> EncErr("Decode")

----------------------------------------------------------------------------
(* canonical.rs : decoder                                                  *)

DecOk(v, i) == [err |-> "Ok", val |-> v, idx |-> i]
DecErr(e)   == [err |-> e, val |-> VNone, idx |-> 0]

\* fn take_u : a short read returns 0 and leaves idx where it was
TakeU(bytes, idx, len) ==
    IF idx + len > Len(bytes) THEN [n |-> <<>>, idx |-> idx]
    ELSE [n |-> Strip(SubSeq(bytes, idx + 1, idx + len)), idx |-> idx + len]

\* fn check_min_int
CheckMinInt(ai, n, strict) ==
    IF ~strict THEN TRUE
    ELSE CASE ai <= 23 -> TRUE
           [] ai = 24  -> NatOf(n) >= 24
           [] ai = 25  -> Len(n) > 1
           [] ai = 26  -> Len(n) > 2
           [] ai = 27  -> Len(n) > 4
           [] OTHER    -> FALSE

\* std::str::from_utf8 succeeds
RECURSIVE IsUtf8(_)
IsUtf8(s) ==
    LET cont(i) == i <= Len(s) /\ s[i] >= 128 /\ s[i] <= 191 IN
    IF Len(s) = 0 THEN TRUE
    ELSE IF s[1] < 128 THEN IsUtf8(Tail(s))
    ELSE IF s[1] >= 194 /\ s[1] <= 223
         THEN cont(2) /\ IsUtf8(SubSeq(s, 3, Len(s)))
    ELSE IF s[1] >= 224 /\ s[1] <= 239
         THEN /\ cont(2) /\ cont(3)
              /\ (s[1] = 224 => s[2] >= 160)
              /\ (s[1] = 237 => s[2] <= 159)
              /\ IsUtf8(SubSeq(s, 4, Len(s)))
    ELSE IF s[1] >= 240 /\ s[1] <= 244
         THEN /\ cont(2) /\ cont(3) /\ cont(4)
              /\ (s[1] = 240 => s[2] >= 144)
              /\ (s[1] = 244 => s[2] <= 143)
              /\ IsUtf8(SubSeq(s, 5, Len(s)))
    ELSE FALSE

\* `*idx + len` overflows usize (64 bits): the addition panics in a checked
\* build and wraps to an end before idx, where the slice panics, otherwise.
AddOverflows(idx, n) ==
    /\ Len(n) = 8
    /\ \A i \in 1..7 : n[i] = 255
    /\ n[8] + idx >= 256

\* `Vec::with_capacity(len)` panics with "capacity overflow" when the bytes
\* asked for exceed isize::MAX; whatever the size of an element, that is so
\* for every len >= 2^63.
CapacityOverflows(n) == Len(n) = 8 /\ n[1] >= 128

\* Number of items the loop `for _ in 0..len` can start before the input is
\* exhausted: every item consumes a byte, so len is capped at Len(bytes) + 1.
LoopCount(bytes, n) ==
    IF IsSmall(n) THEN Min2(NatOf(n), Len(bytes) + 1) ELSE Len(bytes) + 1

\* major 7 : simple values and floats
DecSimple(bytes, idx, ai, strict) ==
    CASE ai = 20 -> DecOk(VBool(FALSE), idx)
      [] ai = 21 -> DecOk(VBool(TRUE), idx)
      [] ai = 22 \/ ai = 23 -> DecOk(VNull, idx)
      [] ai = 24 -> DecErr("Decode")
      [] ai = 25 \/ ai = 26 -> DecErr("NonCanonicalFloat")
      [] ai = 27 ->
            IF idx + 8 > Len(bytes) THEN DecErr("Incomplete")
            ELSE LET f == SubSeq(bytes, idx + 1, idx + 8) IN
                 IF strict /\ FloatShouldBeInt(f) THEN DecErr("FloatShouldBeInt")
                 ELSE IF strict /\ CanonicalizeF64(f) # f
                      THEN DecErr("NonCanonicalFloat")
                 ELSE DecOk(VFloat(f), idx + 8)
      [] OTHER -> DecErr("Decode")

RECURSIVE DecValue(_, _, _)
RECURSIVE DecItems(_, _, _, _, _)
RECURSIVE DecEntries(_, _, _, _, _, _)

\* major 4 : the loop pushing `len` items, ended by the first item that
\* fails.  A loop of more than one round is its first half followed by its
\* second half, which keeps the evaluation of a 32-item array shallow.
DecItems(bytes, idx, count, items, strict) ==
    IF count = 0 THEN DecOk(VArray(items), idx)
    ELSE IF count = 1
    THEN LetIn(DecValue(bytes, idx, strict), LAMBDA r :
         IF r.err # "Ok" THEN r
         ELSE DecOk(VArray(Append(items, r.val)), r.idx))
    ELSE LetIn(DecItems(bytes, idx, count \div 2, items, strict), LAMBDA h :
         IF h.err # "Ok" THEN h
         ELSE DecItems(bytes, h.idx, count - count \div 2, h.val.items, strict))

\* major 5 : the loop reading `len` entries; prev is <<>> or <<key bytes>>
\* (prev_bytes), handed on from one round to the next with the result.  As
\* for the items, a loop of more than one round is its two halves.
DecEntries(bytes, idx, count, entries, prev, strict) ==
    IF count = 0 THEN [err |-> "Ok", val |-> VMap(entries), idx |-> idx, prev |-> prev]
    ELSE IF count = 1
    THEN LetIn(DecValue(bytes, idx, strict), LAMBDA k :
         IF k.err # "Ok" THEN k
         ELSE LetIn(SubSeq(bytes, idx + 1, k.idx), LAMBDA curr :
              IF Len(prev) = 1 /\ prev[1] = curr THEN DecErr("DuplicateKey")
              ELSE IF Len(prev) = 1 /\ ~BytesLess(prev[1], curr)
                   THEN DecErr("MapKeyOrder")
              ELSE LetIn(DecValue(bytes, k.idx, strict), LAMBDA v :
                   IF v.err # "Ok" THEN v
                   ELSE [err |-> "Ok",
                         val |-> VMap(Append(entries, << k.val, v.val >>)),
                         idx |-> v.idx, prev |-> << curr >>])))
    ELSE LetIn(DecEntries(bytes, idx, count \div 2, entries, prev, strict), LAMBDA h :
         IF h.err # "Ok" THEN h
         ELSE DecEntries(bytes, h.idx, count - count \div 2, h.val.entries,
                         h.prev, strict))

\* fn dec_value
DecValue(bytes, idx, strict) ==
    IF idx >= Len(bytes) THEN DecErr("Incomplete")
    ELSE
    LET b0    == bytes[idx + 1]
        i1    == idx + 1
        major == b0 \div 32
        ai    == b0 % 32
    IN
    IF major = 6 THEN DecErr("Tag")
    ELSE IF ai = 31 THEN DecErr("Indefinite")
    ELSE IF major = 7 THEN DecSimple(bytes, i1, ai, strict)
    ELSE IF ai > 27 THEN DecErr("Decode")
    ELSE
    LetIn(CASE ai <= 23 -> [n |-> MagOf(ai), idx |-> i1]
            [] ai = 24  -> TakeU(bytes, i1, 1)
            [] ai = 25  -> TakeU(bytes, i1, 2)
            [] ai = 26  -> TakeU(bytes, i1, 4)
            [] ai = 27  -> TakeU(bytes, i1, 8), LAMBDA a :
    LET fits == ~AddOverflows(a.idx, a.n) /\ IsSmall(a.n)
                /\ a.idx + NatOf(a.n) <= Len(bytes)
        body == SubSeq(bytes, a.idx + 1, a.idx + NatOf(a.n))
    IN
    CASE major = 0 ->
            IF CheckMinInt(ai, a.n, strict) THEN DecOk(VInt(FALSE, a.n), a.idx)
            ELSE DecErr("NonCanonicalInt")
      [] major = 1 ->
            IF CheckMinInt(ai, a.n, strict) THEN DecOk(VInt(TRUE, a.n), a.idx)
            ELSE DecErr("NonCanonicalInt")
      [] major = 2 ->
            IF AddOverflows(a.idx, a.n) THEN DecErr("Panic")
            ELSE IF ~fits THEN DecErr("Incomplete")
            ELSE DecOk(VBytes(body), a.idx + NatOf(a.n))
      [] major = 3 ->
            IF AddOverflows(a.idx, a.n) THEN DecErr("Panic")
            ELSE IF ~fits THEN DecErr("Incomplete")
            ELSE IF ~IsUtf8(body) THEN DecErr("Decode")
            ELSE DecOk(VText(body), a.idx + NatOf(a.n))
      [] major = 4 ->
            IF CapacityOverflows(a.n) THEN DecErr("Panic")
            ELSE DecItems(bytes, a.idx, LoopCount(bytes, a.n), <<>>, strict)
      [] major = 5 ->
            IF CapacityOverflows(a.n) THEN DecErr("Panic")
            ELSE LetIn(DecEntries(bytes, a.idx, LoopCount(bytes, a.n), <<>>, <<>>,
                                  strict), LAMBDA m :
                 IF m.err # "Ok" THEN m ELSE DecOk(m.val, m.idx)))

\* fn decode_value
DecodeValue(bytes) ==
    LetIn(DecValue(bytes, 0, TRUE), LAMBDA r :
    IF r.err # "Ok" THEN r
    ELSE IF r.idx # Len(bytes) THEN DecErr("Trailing")
    ELSE r)

\* fn encode_value
EncodeValue(v) == EncValue(v)

----------------------------------------------------------------------------
(* lib.rs / events.rs : hashes                                             *)
(*                                                                         *)
(* BLAKE3 over the canonical encoding of EventIdInput is taken to be       *)
(* collision-free: a digest is the term <<kind, payload, parents>> it was  *)
(* computed from.  Opaque(n) is a 32-byte value that is no digest of the   *)
(* model (an arbitrary or forged id).  The byte order of digests is        *)
(* unrelated to the order of their inputs: HashLess first compares a       *)
(* mixing of the term and falls back on the structure.                     *)

None    == <<>>
Some(x) == << x >>

Kinds == {"Observation", "PolicyContext", "Decision", "Commit"}

Opaque(n) == << "Opaque", << n >>, <<>> >>

KindIdx(k) == CASE k = "Observation"   -> 0
                [] k = "PolicyContext" -> 1
                [] k = "Decision"      -> 2
                [] k = "Commit"        -> 3
                [] OTHER               -> 4

RECURSIVE SumSeq(_)
SumSeq(s) == IF Len(s) = 0 THEN 0 ELSE s[1] + SumSeq(Tail(s))

\* A mixing of the digest input that decides the first byte of the digest.
Mix(h) == (3 * KindIdx(h[1]) + 5 * SumSeq(h[2]) + 2 * Len(h[3])
           + SumSeq([ i \in DOMAIN h[3] |-> (i + 1) * (KindIdx(h[3][i][1]) + 1) ])) % 7

\* impl Ord for Hash (derived: lexicographic on the 32 bytes)
RECURSIVE HashLess(_, _)
HashLess(a, b) ==
    LET RECURSIVE SeqLess(_, _)
        SeqLess(x, y) ==
            IF Len(y) = 0 THEN FALSE
            ELSE IF Len(x) = 0 THEN TRUE
            ELSE IF x[1] # y[1] THEN HashLess(x[1], y[1])
            ELSE SeqLess(Tail(x), Tail(y))
    IN
    IF Mix(a) # Mix(b) THEN Mix(a) < Mix(b)
    ELSE IF KindIdx(a[1]) # KindIdx(b[1]) THEN KindIdx(a[1]) < KindIdx(b[1])
    ELSE IF a[2] # b[2] THEN BytesLess(a[2], b[2])
    ELSE SeqLess(a[3], b[3])

\* parents.windows(2).all(|w| w[0] < w[1])
StrictlyIncreasing(parents) ==
    \A i \in 1..(Len(parents) - 1) : HashLess(parents[i], parents[i + 1])

----------------------------------------------------------------------------
(* events.rs : envelopes and constructors                                  *)

\* struct EventEnvelope
Envelope(event_id, kind, payload, parents, agent_id, signature, observation_type) ==
    [ event_id |-> event_id, kind |-> kind, payload |-> payload,
      parents |-> parents, agent_id |-> agent_id, signature |-> signature,
      observation_type |-> observation_type ]

NoEnvelope == Envelope(<<>>, "None", <<>>, <<>>, None, None, None)

ROk(e)       == [res |-> "Ok", msg |-> "", env |-> e]
RErr(r, msg) == [res |-> r, msg |-> msg, env |-> NoEnvelope]

\* fn EventEnvelope::compute_event_id
ComputeEventId(kind, payload, parents) == << kind, payload, parents >>

\* fn EventEnvelope::canonicalize_parents : BTreeSet, then in-order collect
RECURSIVE SortedSeq(_)
SortedSeq(S) ==
    IF S = {} THEN <<>>
    ELSE LET m == CHOOSE x \in S : \A y \in S \ {x} : HashLess(x, y)
         IN  << m >> \o SortedSeq(S \ {m})

\* Variant: duplicates are dropped, the first-seen order is kept
RECURSIVE CanonicalizeParentsFirstSeen(_)
CanonicalizeParentsFirstSeen(parents) ==
    IF Len(parents) = 0 THEN <<>>
    ELSE LET front == CanonicalizeParentsFirstSeen(SubSeq(parents, 1, Len(parents) - 1))
             x     == parents[Len(parents)]
         IN  IF x \in Range(front) THEN front ELSE Append(front, x)

\* Variant: the parent list is kept as given, neither sorted nor deduplicated
CanonicalizeParentsKeepOrder(parents) == parents

CanonicalizeParents(parents) == SortedSeq(Range(parents))

\* fn EventEnvelope::verify_event_id
VerifyEventId(e) == ComputeEventId(e.kind, e.payload, e.parents) = e.event_id

\* Variant: the observation type tag enters the hashed input
NewObservationTaggedId(payload, parents, observation_type, agent_id, signature) ==
    LET ps == CanonicalizeParents(parents)
        tagged == IF observation_type = None THEN payload ELSE Append(payload, 0)
    IN
    ROk(Envelope(ComputeEventId("Observation", tagged, ps), "Observation",
                 payload, ps, agent_id, signature, observation_type))

\* fn EventEnvelope::new_observation
NewObservation(payload, parents, observation_type, agent_id, signature) ==
    LET ps == CanonicalizeParents(parents) IN
    ROk(Envelope(ComputeEventId("Observation", payload, ps), "Observation",
                 payload, ps, agent_id, signature, observation_type))

\* fn EventEnvelope::new_policy_context
NewPolicyContext(payload, parents, agent_id, signature) ==
    LET ps == CanonicalizeParents(parents) IN
    ROk(Envelope(ComputeEventId("PolicyContext", payload, ps), "PolicyContext",
                 payload, ps, agent_id, signature, None))

\* Variant: a policy parent repeated in the evidence is accepted
NewDecisionNoOverlapCheck(payload, evidence_parents, policy_parent, agent_id, signature) ==
    IF Len(evidence_parents) = 0
    THEN RErr("InvalidStructure", "Decision must have at least one evidence parent")
    ELSE LET ps == CanonicalizeParents(Append(evidence_parents, policy_parent)) IN
         ROk(Envelope(ComputeEventId("Decision", payload, ps), "Decision",
                      payload, ps, agent_id, signature, None))

\* Variant: the policy parent is left out of the hashed parent list
NewDecisionEvidenceOnly(payload, evidence_parents, policy_parent, agent_id, signature) ==
    IF Len(evidence_parents) = 0
    THEN RErr("InvalidStructure", "Decision must have at least one evidence parent")
    ELSE IF policy_parent \in Range(evidence_parents)
    THEN RErr("InvalidStructure", "policy_parent must not be included in evidence_parents")
    ELSE LET ps == CanonicalizeParents(evidence_parents) IN
         ROk(Envelope(ComputeEventId("Decision", payload, ps), "Decision",
                      payload, ps, agent_id, signature, None))

\* fn EventEnvelope::new_decision
NewDecision(payload, evidence_parents, policy_parent, agent_id, signature) ==
    IF Len(evidence_parents) = 0
    THEN RErr("InvalidStructure", "Decision must have at least one evidence parent")
    ELSE IF policy_parent \in Range(evidence_parents)
    THEN RErr("InvalidStructure", "policy_parent must not be included in evidence_parents")
    ELSE LET ps == CanonicalizeParents(Append(evidence_parents, policy_parent)) IN
         ROk(Envelope(ComputeEventId("Decision", payload, ps), "Decision",
                      payload, ps, agent_id, signature, None))

\* fn EventEnvelope::new_commit
NewCommit(payload, decision_parent, extra_parents, agent_id, signature) ==
    LET ps == CanonicalizeParents(Append(extra_parents, decision_parent)) IN
    ROk(Envelope(ComputeEventId("Commit", payload, ps), "Commit",
                 payload, ps, agent_id, Some(signature), None))

----------------------------------------------------------------------------
(* events.rs : deserialization                                             *)

\* fn CanonicalBytes::validate_canonical
ValidateCanonical(bytes) ==
    LET d == DecodeValue(bytes) IN
    IF d.err = "Panic" THEN "Panic"
    ELSE IF d.err # "Ok" THEN "Invalid CBOR"
    ELSE LET e == EncodeValue(d.val) IN
         IF e.err # "Ok" THEN "Re-encoding failed"
         ELSE IF bytes # e.bytes THEN "Payload bytes are not canonical CBOR"
         ELSE "Ok"

\* Variant: validation 3 (a Commit carries a signature) is missing
DeserializeEnvelopeNoValidation3(raw) ==
    IF ValidateCanonical(raw.payload) = "Panic"
    THEN RErr("Panic", "slice index out of range")
    ELSE IF ValidateCanonical(raw.payload) # "Ok"
    THEN RErr("DecodeError", ValidateCanonical(raw.payload))
    ELSE IF raw.agent_id = Some("")
    THEN RErr("DecodeError", "AgentId cannot be empty")
    ELSE IF raw.signature = Some(<<>>)
    THEN RErr("DecodeError", "Signature cannot be empty")
    ELSE IF raw.event_id # ComputeEventId(raw.kind, raw.payload, raw.parents)
    THEN RErr("DecodeError", "Tampered event_id")
    ELSE IF ~StrictlyIncreasing(raw.parents)
    THEN RErr("DecodeError", "Parents must be canonically sorted and deduplicated")
    ELSE ROk(Envelope(raw.event_id, raw.kind, raw.payload, raw.parents,
                      raw.agent_id, raw.signature, raw.observation_type))

\* impl Deserialize for EventEnvelope, on the fields read off the wire:
\* the field decoders of struct RawEventEnvelope (CanonicalBytes, AgentId,
\* Signature), then validations 1 to 3.  A panic of the payload decoder
\* unwinds through the deserializer: no Result is returned.
DeserializeEnvelope(raw) ==
    IF ValidateCanonical(raw.payload) = "Panic"
    THEN RErr("Panic", "slice index out of range")
    ELSE IF ValidateCanonical(raw.payload) # "Ok"
    THEN RErr("DecodeError", ValidateCanonical(raw.payload))
    ELSE IF raw.agent_id = Some("")
    THEN RErr("DecodeError", "AgentId cannot be empty")
    ELSE IF raw.signature = Some(<<>>)
    THEN RErr("DecodeError", "Signature cannot be empty")
    ELSE IF raw.event_id # ComputeEventId(raw.kind, raw.payload, raw.parents)
    THEN RErr("DecodeError", "Tampered event_id")
    ELSE IF ~StrictlyIncreasing(raw.parents)
    THEN RErr("DecodeError", "Parents must be canonically sorted and deduplicated")
    ELSE IF raw.kind = "Commit" /\ raw.signature = None
    THEN RErr("DecodeError", "Commit event must have a signature")
    ELSE ROk(Envelope(raw.event_id, raw.kind, raw.payload, raw.parents,
                      raw.agent_id, raw.signature, raw.observation_type))

----------------------------------------------------------------------------
(* events.rs : store-backed validation                                     *)

\* A store is a function from event ids to envelopes (HashMap<EventId, _>).
EmptyStore == [ h \in {} |-> NoEnvelope ]

\* fn TestStore::insert : events.insert(event.event_id(), event)
StoreInsert(store, e) ==
    [ h \in DOMAIN store \cup {e.event_id} |->
        IF h = e.event_id THEN e ELSE store[h] ]

\* trait EventStore::get(..).is_some()
Resolves(store, id) == id \in DOMAIN store

VOk       == [res |-> "Ok", msg |-> ""]
VErr(msg) == [res |-> "ValidationError", msg |-> msg]

\* fn validate_event, Rule 1: event id must match the computed hash
Rule1EventId(event) == VerifyEventId(event)

\* fn validate_event, Rule 2: parents sorted and unique
Rule2CanonicalParents(event) == StrictlyIncreasing(event.parents)

\* Variant: parent existence is checked for Decisions and Commits only
Rule25OnlyTypedKinds(event, store) ==
    event.kind \in {"Decision", "Commit"} =>
        \A i \in DOMAIN event.parents : Resolves(store, event.parents[i])

\* fn validate_event, Rule 2.5: every parent exists in the store, all kinds
Rule25ParentsExist(event, store) ==
    \A i \in DOMAIN event.parents : Resolves(store, event.parents[i])

\* Variant: the policy count is checked, the evidence parent is not
Rule3PolicyCountOnly(event, store) ==
    LET ps == event.parents
        policy_count ==
            Cardinality({ i \in DOMAIN ps : store[ps[i]].kind = "PolicyContext" })
    IN
    IF event.kind # "Decision" THEN ""
    ELSE IF policy_count # 1
    THEN "Decision must have exactly one PolicyContext parent"
    ELSE ""

\* fn validate_event, Rule 3: "" when the Decision rule passes, else the error
Rule3Decision(event, store) ==
    LET ps == event.parents
        policy_count ==
            Cardinality({ i \in DOMAIN ps : store[ps[i]].kind = "PolicyContext" })
        has_non_policy_parent ==
            \E i \in DOMAIN ps : store[ps[i]].kind # "PolicyContext"
    IN
    IF event.kind # "Decision" THEN ""
    ELSE IF policy_count # 1
    THEN "Decision must have exactly one PolicyContext parent"
    ELSE IF ~has_non_policy_parent /\ Len(ps) = 1
    THEN "Decision must have evidence parents in addition to policy"
    ELSE ""

\* fn validate_event, Rule 4: a Commit has a Decision parent
Rule4CommitParent(event, store) ==
    event.kind = "Commit" =>
        \E i \in DOMAIN event.parents : store[event.parents[i]].kind = "Decision"

\* Variant: the signature of a Commit is not looked at
Rule5Skipped(event) == TRUE

\* fn validate_event, Rule 5: a Commit has a signature
Rule5CommitSignature(event) ==
    event.kind = "Commit" => event.signature # None

\* fn validate_event
ValidateEvent(event, store) ==
    IF ~Rule1EventId(event)
    THEN VErr("Event ID does not match computed hash")
    ELSE IF ~Rule2CanonicalParents(event)
    THEN VErr("Parents are not canonically sorted/deduplicated")
    ELSE IF ~Rule25ParentsExist(event, store)
    THEN VErr("event references unknown parent")
    ELSE IF Rule3Decision(event, store) # ""
    THEN VErr(Rule3Decision(event, store))
    ELSE IF ~Rule4CommitParent(event, store)
    THEN VErr("Commit must have at least one Decision parent")
    ELSE IF ~Rule5CommitSignature(event)
    THEN VErr("Commit must have a signature")
    ELSE VOk

\* Variant: lookups go to the base store only
CombinedStoreBaseOnly(base, batch) == base

\* struct CombinedStore / impl EventStore for CombinedStore : batch, then base
CombinedStore(base, batch) ==
    [ h \in DOMAIN batch \cup DOMAIN base |->
        IF h \in DOMAIN batch THEN batch[h] ELSE base[h] ]

\* fn validate_store : the loop from event i on, batch_events built so far
RECURSIVE ValidateStoreLoop(_, _, _, _)
ValidateStoreLoop(store, events, i, batch_events) ==
    IF i > Len(events) THEN VOk
    ELSE LET r == ValidateEvent(events[i], CombinedStore(store, batch_events)) IN
         IF r.res # "Ok" THEN r
         ELSE ValidateStoreLoop(store, events, i + 1,
                                StoreInsert(batch_events, events[i]))

ValidateStore(store, events) == ValidateStoreLoop(store, events, 1, EmptyStore)

----------------------------------------------------------------------------
(* delta.rs : counterfactual specifications                                *)

\* enum DeltaKind
SchedulerPolicy(new_policy) == [type |-> "SchedulerPolicy", new_policy |-> new_policy]
ClockPolicy(new_policy)     == [type |-> "ClockPolicy", new_policy |-> new_policy]
TrustPolicy(new_trust_roots) ==
    [type |-> "TrustPolicy", new_trust_roots |-> new_trust_roots]
InputMutation(insert, delete, modify) ==
    [type |-> "InputMutation", insert |-> insert, delete |-> delete, modify |-> modify]

\* struct DeltaSpec
DeltaSpec(kind, description, hash) ==
    [kind |-> kind, description |-> description, hash |-> hash]

NoDelta == DeltaSpec([type |-> "None"], "", <<>>)

\* Hash([0u8; 32]), the placeholder before finalize
ZeroHash == Opaque(0)

DOk(spec)    == [res |-> "Ok", msg |-> "", spec |-> spec]
DErr(r, msg) == [res |-> r, msg |-> msg, spec |-> NoDelta]

\* fn DeltaSpec::compute_hash : BLAKE3 over canonical (kind, description),
\* taken to be collision-free
ComputeHash(spec) == << "DeltaSpec", spec.kind, spec.description >>

\* fn DeltaSpec::finalize
Finalize(spec) == DOk([spec EXCEPT !.hash = ComputeHash(spec)])

\* fn DeltaSpec::new_scheduler_policy
NewSchedulerPolicy(new_policy, description) ==
    Finalize(DeltaSpec(SchedulerPolicy(new_policy), description, ZeroHash))

\* fn DeltaSpec::new_clock_policy
NewClockPolicy(new_policy, description) ==
    Finalize(DeltaSpec(ClockPolicy(new_policy), description, ZeroHash))

\* Variant without the check for an empty list
NewTrustPolicyAcceptsEmpty(new_trust_roots, description) ==
    Finalize(DeltaSpec(TrustPolicy(new_trust_roots), description, ZeroHash))

\* fn DeltaSpec::new_trust_policy
NewTrustPolicy(new_trust_roots, description) ==
    IF Len(new_trust_roots) = 0
    THEN DErr("InvalidStructure", "TrustPolicy cannot have empty new_trust_roots")
    ELSE Finalize(DeltaSpec(TrustPolicy(new_trust_roots), description, ZeroHash))

\* fn DeltaSpec::new_input_mutation
NewInputMutation(insert, delete, modify, description) ==
    Finalize(DeltaSpec(InputMutation(insert, delete, modify), description, ZeroHash))

\* Variant that takes the stored hash as it comes
DeserializeDeltaSpecUnchecked(raw) ==
    IF /\ raw.kind.type = "TrustPolicy"
       /\ \E i \in DOMAIN raw.kind.new_trust_roots : raw.kind.new_trust_roots[i] = ""
    THEN DErr("DecodeError", "AgentId cannot be empty")
    ELSE DOk(DeltaSpec(raw.kind, raw.description, raw.hash))

\* impl Deserialize for DeltaSpec : the helper's field decoders (AgentId
\* rejects the empty string), then the hash is recomputed and compared
DeserializeDeltaSpec(raw) ==
    IF /\ raw.kind.type = "TrustPolicy"
       /\ \E i \in DOMAIN raw.kind.new_trust_roots : raw.kind.new_trust_roots[i] = ""
    THEN DErr("DecodeError", "AgentId cannot be empty")
    ELSE IF ComputeHash(raw) # raw.hash
    THEN DErr("DecodeError", "Invalid hash: stored hash does not match computed hash")
    ELSE DOk(DeltaSpec(raw.kind, raw.description, raw.hash))

----------------------------------------------------------------------------
(* Typed payloads: serde through ciborium::Value                           *)
(*                                                                         *)
(* A u64 is kept as its big-endian magnitude without leading zero bytes,   *)
(* the form the codec uses for integer arguments.                         *)

U64Max == AllOnes(8)

\* a <= b on magnitudes
MagLeq(a, b) ==
    \/ Len(a) < Len(b)
    \/ Len(a) = Len(b) /\ ~BytesLess(b, a)

\* Field and variant names as UTF-8 bytes
TxtSource        == <<115, 111, 117, 114, 99, 101>>
TxtValueNs       == <<118, 97, 108, 117, 101, 95, 110, 115>>
TxtUncertaintyNs == <<117, 110, 99, 101, 114, 116, 97, 105, 110, 116, 121, 95, 110, 115>>
TxtMonotonic     == <<77, 111, 110, 111, 116, 111, 110, 105, 99>>
TxtRtc           == <<82, 116, 99>>
TxtNtp           == <<78, 116, 112>>
TxtPeerClaim     == <<80, 101, 101, 114, 67, 108, 97, 105, 109>>

\* fn CanonicalBytes::from_value on the ciborium::Value of the argument
FromValue(v) == EncodeValue(v).bytes

\* Value::deserialized into a struct: the value is a map, every key is a
\* text, unknown keys are skipped; the entry of a named field
HasField(v, name) == \E i \in DOMAIN v.entries : v.entries[i][1] = VText(name)

Field(v, name) ==
    v.entries[CHOOSE i \in DOMAIN v.entries : v.entries[i][1] = VText(name)][2]

IsStructValue(v, names) ==
    /\ v.t = "map"
    /\ \A i \in DOMAIN v.entries : v.entries[i][1].t = "text"
    /\ \A n \in names : HasField(v, n)

\* Value::deserialized into a u64 field
IsU64Value(v) == v.t = "int" /\ ~v.neg /\ Len(v.arg) <= 8

----------------------------------------------------------------------------
(* clock.rs : the clock view                                               *)

OBS_CLOCK_SAMPLE_V0  == "OBS_CLOCK_SAMPLE_V0"

\* enum ClockSource, serialized as the variant name
ClockSources == {"Monotonic", "Rtc", "Ntp", "PeerClaim"}

SourceName(source) ==
    CASE source = "Monotonic" -> TxtMonotonic
      [] source = "Rtc"       -> TxtRtc
      [] source = "Ntp"       -> TxtNtp
      [] source = "PeerClaim" -> TxtPeerClaim

\* struct ClockSample
ClockSample(source, value_ns, uncertainty_ns) ==
    [source |-> source, value_ns |-> value_ns, uncertainty_ns |-> uncertainty_ns]

\* derive(Serialize) for ClockSample : a map in field order
SerializeClockSample(sample) ==
    VMap(<< << VText(TxtSource), VText(SourceName(sample.source)) >>,
            << VText(TxtValueNs), VInt(FALSE, sample.value_ns) >>,
            << VText(TxtUncertaintyNs), VInt(FALSE, sample.uncertainty_ns) >> >>)

\* derive(Deserialize) for ClockSample, from a decoded value
IsClockSampleValue(v) ==
    /\ IsStructValue(v, { TxtSource, TxtValueNs, TxtUncertaintyNs })
    /\ Field(v, TxtSource).t = "text"
    /\ \E src \in ClockSources : SourceName(src) = Field(v, TxtSource).b
    /\ IsU64Value(Field(v, TxtValueNs))
    /\ IsU64Value(Field(v, TxtUncertaintyNs))

ClockSampleOfValue(v) ==
    ClockSample(CHOOSE src \in ClockSources : SourceName(src) = Field(v, TxtSource).b,
                Field(v, TxtValueNs).arg, Field(v, TxtUncertaintyNs).arg)

\* event.payload().to_value::<ClockSample>() : None when decoding fails
ToClockSample(payload) ==
    LetIn(DecodeValue(payload), LAMBDA d :
    IF d.err = "Ok" /\ IsClockSampleValue(d.val)
    THEN Some(ClockSampleOfValue(d.val)) ELSE None)

\* struct Time
Time(ns, uncertainty_ns, domain, provenance) ==
    [ns |-> ns, uncertainty_ns |-> uncertainty_ns, domain |-> domain,
     provenance |-> provenance]

\* fn Time::unknown
TimeUnknown == Time(<<>>, U64Max, "Unknown", <<>>)

\* struct ClockSampleRecord
ClockSampleRecord(event_id, sample) == [event_id |-> event_id, sample |-> sample]

\* struct LatestSamples (Default)
LatestDefault == [monotonic |-> None, ntp |-> None, rtc |-> None, peer |-> None]

ClockPolicies == {"TrustMonotonicLatest", "TrustNtpLatest"}

\* fn ClockView::new
ClockNew(policy) ==
    [samples |-> <<>>, latest |-> LatestDefault, current |-> TimeUnknown,
     policy |-> policy]

\* No view has been constructed.
NoView == [policy |-> "None"]

\* Variant that trusts the largest sample of the source ever applied
ComputeCurrentTimeLargest(view) ==
    LET src  == IF view.policy = "TrustMonotonicLatest" THEN "Monotonic" ELSE "Ntp"
        mine == { i \in DOMAIN view.samples : view.samples[i].sample.source = src }
    IN  IF mine = {} THEN TimeUnknown
        ELSE LET top == CHOOSE i \in mine : \A j \in mine :
                            MagLeq(view.samples[j].sample.value_ns,
                                   view.samples[i].sample.value_ns)
             IN  Time(view.samples[top].sample.value_ns,
                      view.samples[top].sample.uncertainty_ns,
                      IF view.policy = "TrustMonotonicLatest" THEN "Monotonic" ELSE "Unix",
                      << view.samples[top].event_id >>)

\* fn ClockView::compute_current_time
ComputeCurrentTime(view) ==
    LET record == IF view.policy = "TrustMonotonicLatest"
                  THEN view.latest.monotonic ELSE view.latest.ntp
    IN  IF record = None THEN TimeUnknown
        ELSE Time(record[1].sample.value_ns, record[1].sample.uncertainty_ns,
                  IF view.policy = "TrustMonotonicLatest" THEN "Monotonic" ELSE "Unix",
                  << record[1].event_id >>)

\* fn ClockView::apply_event, from the decoded sample on: the record is
\* cached as the latest of its source, pushed, and current is recomputed
ClockRecordSample(view, event_id, sample) ==
    LetIn(ClockSampleRecord(event_id, sample), LAMBDA record :
    LetIn([view EXCEPT
             !.latest.monotonic =
                 IF sample.source = "Monotonic" THEN Some(record) ELSE @,
             !.latest.ntp  = IF sample.source = "Ntp" THEN Some(record) ELSE @,
             !.latest.rtc  = IF sample.source = "Rtc" THEN Some(record) ELSE @,
             !.latest.peer = IF sample.source = "PeerClaim" THEN Some(record) ELSE @,
             !.samples = Append(@, record)], LAMBDA cached :
    [cached EXCEPT !.current = ComputeCurrentTime(cached)]))

\* Variant that does not look at the kind of the event
ClockApplyEventAnyKind(view, event) ==
    IF event.observation_type # Some(OBS_CLOCK_SAMPLE_V0) THEN view
    ELSE LetIn(ToClockSample(event.payload), LAMBDA sample :
         IF sample = None THEN view
         ELSE ClockRecordSample(view, event.event_id, sample[1]))

\* fn ClockView::apply_event : the view after the call (the call returns Ok)
ClockApplyEvent(view, event) ==
    IF event.kind # "Observation" THEN view
    ELSE IF event.observation_type # Some(OBS_CLOCK_SAMPLE_V0) THEN view
    ELSE LetIn(ToClockSample(event.payload), LAMBDA sample :
         IF sample = None THEN view
         ELSE ClockRecordSample(view, event.event_id, sample[1]))

\* fn ClockView::now
ClockNow(view) == view.current

\* Variant of the loop that stops one event before the cut
RECURSIVE NowAtCutLoopShort(_, _, _, _)
NowAtCutLoopShort(view, events, i, cut) ==
    IF i >= cut THEN view
    ELSE LetIn(ClockApplyEvent(view, events[i]), LAMBDA applied_view :
         NowAtCutLoopShort(applied_view, events, i + 1, cut))

\* fn ClockView::now_at_cut : the loop over events[..cut] from index i on
RECURSIVE NowAtCutLoop(_, _, _, _)
NowAtCutLoop(view, events, i, cut) ==
    IF i > cut THEN view
    ELSE LetIn(ClockApplyEvent(view, events[i]), LAMBDA applied_view :
         NowAtCutLoop(applied_view, events, i + 1, cut))

\* Variant that rejects the cut at the end of the sequence as well
NowAtCutEndRejected(events, cut, policy) ==
    IF cut >= Len(events)
    THEN [res |-> "CutOutOfBounds", cut |-> cut, len |-> Len(events),
          time |-> None]
    ELSE [res |-> "Ok", cut |-> cut, len |-> Len(events),
          time |-> Some(NowAtCutLoop(ClockNew(policy), events, 1, cut).current)]

\* fn ClockView::now_at_cut
NowAtCut(events, cut, policy) ==
    IF cut > Len(events)
    THEN [res |-> "CutOutOfBounds", cut |-> cut, len |-> Len(events),
          time |-> None]
    ELSE [res |-> "Ok", cut |-> cut, len |-> Len(events),
          time |-> Some(NowAtCutLoop(ClockNew(policy), events, 1, cut).current)]

----------------------------------------------------------------------------
(* timer.rs : the timer view                                               *)

OBS_TIMER_REQUEST_V0 == "OBS_TIMER_REQUEST_V0"

TxtRequestId     == <<114, 101, 113, 117, 101, 115, 116, 95, 105, 100>>
TxtDurationNs    == <<100, 117, 114, 97, 116, 105, 111, 110, 95, 110, 115>>
TxtRequestedAtNs == <<114, 101, 113, 117, 101, 115, 116, 101, 100, 95, 97, 116, 95, 110, 115>>
TxtFiredAtNs     == <<102, 105, 114, 101, 100, 95, 97, 116, 95, 110, 115>>

\* struct Hash(pub [u8; 32]) : the bytes of the hash Hash([n; 32])
HashBytes(h) == [ i \in 1..32 |-> h[2][1] ]

\* derive(Serialize) for Hash : the array of its 32 bytes
SerializeHash(h) == VArray([ i \in 1..32 |-> VInt(FALSE, Strip(<< HashBytes(h)[i] >>)) ])

\* derive(Deserialize) for Hash : an array of 32 integers below 256
IsHashValue(v) ==
    /\ v.t = "array"
    /\ Len(v.items) = 32
    /\ \A i \in 1..32 : v.items[i].t = "int" /\ ~v.items[i].neg
                        /\ Len(v.items[i].arg) <= 1

HashOfValue(v) ==
    LET bytes == [ i \in 1..32 |-> NatOf(v.items[i].arg) ] IN
    IF \A i \in 1..32 : bytes[i] = bytes[1] THEN Opaque(bytes[1])
    ELSE << "Opaque", bytes, <<>> >>

\* struct TimerRequest
TimerRequest(request_id, duration_ns, requested_at_ns) ==
    [request_id |-> request_id, duration_ns |-> duration_ns,
     requested_at_ns |-> requested_at_ns]

\* derive(Serialize) for TimerRequest
SerializeTimerRequest(request) ==
    VMap(<< << VText(TxtRequestId), SerializeHash(request.request_id) >>,
            << VText(TxtDurationNs), VInt(FALSE, request.duration_ns) >>,
            << VText(TxtRequestedAtNs), VInt(FALSE, request.requested_at_ns) >> >>)

\* event.payload().to_value::<TimerRequest>() : None when decoding fails
ToTimerRequest(payload) ==
    LetIn(DecodeValue(payload), LAMBDA d :
    IF /\ d.err = "Ok"
       /\ IsStructValue(d.val, { TxtRequestId, TxtDurationNs, TxtRequestedAtNs })
       /\ IsHashValue(Field(d.val, TxtRequestId))
       /\ IsU64Value(Field(d.val, TxtDurationNs))
       /\ IsU64Value(Field(d.val, TxtRequestedAtNs))
    THEN Some(TimerRequest(HashOfValue(Field(d.val, TxtRequestId)),
                           Field(d.val, TxtDurationNs).arg,
                           Field(d.val, TxtRequestedAtNs).arg))
    ELSE None)

\* struct TimerFire
TimerFire(request_id, fired_at_ns) ==
    [request_id |-> request_id, fired_at_ns |-> fired_at_ns]

\* derive(Serialize) for TimerFire
SerializeTimerFire(fire) ==
    VMap(<< << VText(TxtRequestId), SerializeHash(fire.request_id) >>,
            << VText(TxtFiredAtNs), VInt(FALSE, fire.fired_at_ns) >> >>)

\* event.payload().to_value::<TimerFire>() : None when decoding fails
ToTimerFire(payload) ==
    LetIn(DecodeValue(payload), LAMBDA d :
    IF /\ d.err = "Ok"
       /\ IsStructValue(d.val, { TxtRequestId, TxtFiredAtNs })
       /\ IsHashValue(Field(d.val, TxtRequestId))
       /\ IsU64Value(Field(d.val, TxtFiredAtNs))
    THEN Some(TimerFire(HashOfValue(Field(d.val, TxtRequestId)),
                        Field(d.val, TxtFiredAtNs).arg))
    ELSE None)

\* struct TimerRequestRecord, struct TimerFireRecord
TimerRequestRecord(event_id, request) == [event_id |-> event_id, request |-> request]
TimerFireRecord(event_id, fire) == [event_id |-> event_id, fire |-> fire]

\* fn TimerView::new
TimerNew == [requests |-> <<>>, fired |-> <<>>, fired_ids |-> {}]

\* Variant in which a fire counts only when its request is already known
TimerApplyEventKnownOnly(view, event) ==
    IF event.kind = "Observation"
       /\ event.observation_type = Some(OBS_TIMER_REQUEST_V0)
    THEN LetIn(ToTimerRequest(event.payload), LAMBDA request :
         IF request = None
         THEN [res |-> "MalformedRequest", id |-> Some(event.event_id), view |-> view]
         ELSE [res |-> "Ok", id |-> None,
               view |-> [view EXCEPT !.requests =
                            Append(@, TimerRequestRecord(event.event_id, request[1]))]])
    ELSE IF event.kind = "Decision"
    THEN LetIn(ToTimerFire(event.payload), LAMBDA fire :
         IF fire = None THEN [res |-> "Ok", id |-> None, view |-> view]
         ELSE IF \A k \in DOMAIN view.requests :
                    view.requests[k].request.request_id # fire[1].request_id
         THEN [res |-> "Ok", id |-> None, view |-> view]
         ELSE [res |-> "Ok", id |-> None,
               view |-> [view EXCEPT
                           !.fired = Append(@, TimerFireRecord(event.event_id, fire[1])),
                           !.fired_ids = @ \cup { fire[1].request_id }]])
    ELSE [res |-> "Ok", id |-> None, view |-> view]

\* Variant in which a malformed request empties the requests of the view
TimerApplyEventClearsOnError(view, event) ==
    IF event.kind = "Observation"
       /\ event.observation_type = Some(OBS_TIMER_REQUEST_V0)
    THEN LetIn(ToTimerRequest(event.payload), LAMBDA request :
         IF request = None
         THEN [res |-> "MalformedRequest", id |-> Some(event.event_id),
               view |-> [view EXCEPT !.requests = <<>>]]
         ELSE [res |-> "Ok", id |-> None,
               view |-> [view EXCEPT !.requests =
                            Append(@, TimerRequestRecord(event.event_id, request[1]))]])
    ELSE IF event.kind = "Decision"
    THEN LetIn(ToTimerFire(event.payload), LAMBDA fire :
         IF fire = None THEN [res |-> "Ok", id |-> None, view |-> view]
         ELSE [res |-> "Ok", id |-> None,
               view |-> [view EXCEPT
                           !.fired = Append(@, TimerFireRecord(event.event_id, fire[1])),
                           !.fired_ids = @ \cup { fire[1].request_id }]])
    ELSE [res |-> "Ok", id |-> None, view |-> view]

\* Variant in which a request applied after its fire arms the timer again
TimerApplyEventRearm(view, event) ==
    IF event.kind = "Observation"
       /\ event.observation_type = Some(OBS_TIMER_REQUEST_V0)
    THEN LetIn(ToTimerRequest(event.payload), LAMBDA request :
         IF request = None
         THEN [res |-> "MalformedRequest", id |-> Some(event.event_id), view |-> view]
         ELSE [res |-> "Ok", id |-> None,
               view |-> [view EXCEPT
                           !.requests =
                               Append(@, TimerRequestRecord(event.event_id, request[1])),
                           !.fired_ids = @ \ { request[1].request_id }]])
    ELSE IF event.kind = "Decision"
    THEN LetIn(ToTimerFire(event.payload), LAMBDA fire :
         IF fire = None THEN [res |-> "Ok", id |-> None, view |-> view]
         ELSE [res |-> "Ok", id |-> None,
               view |-> [view EXCEPT
                           !.fired = Append(@, TimerFireRecord(event.event_id, fire[1])),
                           !.fired_ids = @ \cup { fire[1].request_id }]])
    ELSE [res |-> "Ok", id |-> None, view |-> view]

\* Variant in which a request replaces the earlier records of its request_id
TimerApplyEventReplacesRequest(view, event) ==
    IF event.kind = "Observation"
       /\ event.observation_type = Some(OBS_TIMER_REQUEST_V0)
    THEN LetIn(ToTimerRequest(event.payload), LAMBDA request :
         IF request = None
         THEN [res |-> "MalformedRequest", id |-> Some(event.event_id), view |-> view]
         ELSE [res |-> "Ok", id |-> None,
               view |-> [view EXCEPT !.requests =
                            Append(SelectSeq(@, LAMBDA r :
                                       r.request.request_id # request[1].request_id),
                                   TimerRequestRecord(event.event_id, request[1]))]])
    ELSE IF event.kind = "Decision"
    THEN LetIn(ToTimerFire(event.payload), LAMBDA fire :
         IF fire = None THEN [res |-> "Ok", id |-> None, view |-> view]
         ELSE [res |-> "Ok", id |-> None,
               view |-> [view EXCEPT
                           !.fired = Append(@, TimerFireRecord(event.event_id, fire[1])),
                           !.fired_ids = @ \cup { fire[1].request_id }]])
    ELSE [res |-> "Ok", id |-> None, view |-> view]

\* Variant that tries to decode a TimerFire from events of every kind
TimerApplyEventAnyKind(view, event) ==
    IF event.kind = "Observation"
       /\ event.observation_type = Some(OBS_TIMER_REQUEST_V0)
    THEN LetIn(ToTimerRequest(event.payload), LAMBDA request :
         IF request = None
         THEN [res |-> "MalformedRequest", id |-> Some(event.event_id), view |-> view]
         ELSE [res |-> "Ok", id |-> None,
               view |-> [view EXCEPT !.requests =
                            Append(@, TimerRequestRecord(event.event_id, request[1]))]])
    ELSE LetIn(ToTimerFire(event.payload), LAMBDA fire :
         IF fire = None THEN [res |-> "Ok", id |-> None, view |-> view]
         ELSE [res |-> "Ok", id |-> None,
               view |-> [view EXCEPT
                           !.fired = Append(@, TimerFireRecord(event.event_id, fire[1])),
                           !.fired_ids = @ \cup { fire[1].request_id }]])

\* fn TimerView::apply_event : the result and the view after the call
TimerApplyEvent(view, event) ==
    IF event.kind = "Observation"
       /\ event.observation_type = Some(OBS_TIMER_REQUEST_V0)
    THEN LetIn(ToTimerRequest(event.payload), LAMBDA request :
         IF request = None
         THEN [res |-> "MalformedRequest", id |-> Some(event.event_id), view |-> view]
         ELSE [res |-> "Ok", id |-> None,
               view |-> [view EXCEPT !.requests =
                            Append(@, TimerRequestRecord(event.event_id, request[1]))]])
    ELSE IF event.kind = "Decision"
    THEN LetIn(ToTimerFire(event.payload), LAMBDA fire :
         IF fire = None THEN [res |-> "Ok", id |-> None, view |-> view]
         ELSE [res |-> "Ok", id |-> None,
               view |-> [view EXCEPT
                           !.fired = Append(@, TimerFireRecord(event.event_id, fire[1])),
                           !.fired_ids = @ \cup { fire[1].request_id }]])
    ELSE [res |-> "Ok", id |-> None, view |-> view]

\* The carry into byte i - 1 of a + b on eight-byte big-endian numbers
RECURSIVE AddCarry(_, _, _)
AddCarry(a, b, i) ==
    IF i > 8 THEN 0 ELSE (a[i] + b[i] + AddCarry(a, b, i + 1)) \div 256

\* Variant: u64::wrapping_add on magnitudes
SaturatingAddWrapping(a, b) ==
    LET x == PadTo(a, 8)
        y == PadTo(b, 8)
    IN  Strip([ i \in 1..8 |-> (x[i] + y[i] + AddCarry(x, y, i + 1)) % 256 ])

\* u64::saturating_add on magnitudes
SaturatingAdd(a, b) ==
    LET x == PadTo(a, 8)
        y == PadTo(b, 8)
    IN  IF AddCarry(x, y, 1) = 1 THEN U64Max
        ELSE Strip([ i \in 1..8 |-> (x[i] + y[i] + AddCarry(x, y, i + 1)) % 256 ])

\* Variant of pending_timers that does not skip the fired requests
PendingTimersIgnoringFired(view, current_time) ==
    SelectSeq(view.requests, LAMBDA record :
        MagLeq(SaturatingAdd(record.request.requested_at_ns,
                             record.request.duration_ns), current_time.ns))

\* Variant that reports nothing while the time is unknown
PendingTimersKnownTimeOnly(view, current_time) ==
    IF current_time.domain = "Unknown" THEN <<>>
    ELSE SelectSeq(view.requests, LAMBDA record :
            /\ record.request.request_id \notin view.fired_ids
            /\ MagLeq(SaturatingAdd(record.request.requested_at_ns,
                                    record.request.duration_ns), current_time.ns))

\* fn TimerView::pending_timers
PendingTimers(view, current_time) ==
    SelectSeq(view.requests, LAMBDA record :
        /\ record.request.request_id \notin view.fired_ids
        /\ MagLeq(SaturatingAdd(record.request.requested_at_ns,
                                record.request.duration_ns), current_time.ns))

----------------------------------------------------------------------------
(* ids.rs : deterministic node ids                                         *)
(*                                                                         *)
(* As for event ids, BLAKE3 over a canonical encoding is taken to be       *)
(* collision-free: the tick hash is the term of the sorted operations, a   *)
(* node id the term of (tick_hash, operation_hash, counter).  The encoder  *)
(* cannot fail on these inputs, so the unwrap_or fallbacks are not taken.  *)

\* sorted.sort_by_key(|h| h.0) : a stable sort that keeps duplicates
RECURSIVE InsertOp(_, _)
InsertOp(sorted, h) ==
    IF Len(sorted) = 0 THEN << h >>
    ELSE IF HashLess(h, sorted[Len(sorted)])
         THEN Append(InsertOp(SubSeq(sorted, 1, Len(sorted) - 1), h),
                     sorted[Len(sorted)])
         ELSE Append(sorted, h)

RECURSIVE SortOps(_)
SortOps(operations) ==
    IF Len(operations) = 0 THEN <<>>
    ELSE InsertOp(SortOps(SubSeq(operations, 1, Len(operations) - 1)),
                  operations[Len(operations)])

\* blake3 of canonical::encode(&sorted)
TickHash(sorted) == << "Tick", <<>>, sorted >>

\* blake3 of canonical::encode(&(tick_hash, operation_hash, counter))
NodeId(tick_hash, operation_hash, counter) ==
    << "Node", << counter >>, << tick_hash, operation_hash >> >>

\* struct DeterministicIdAllocator; counters maps the operations seen
\* to their counter
Allocator(tick_hash, counters) == [tick_hash |-> tick_hash, counters |-> counters]

NoAllocator == [tick_hash |-> "None"]

\* Variant that hashes the operations in the order given
NewForTickUnsorted(operations) ==
    Allocator(TickHash(operations), << >>)

\* fn DeterministicIdAllocator::new_for_tick
NewForTick(operations) ==
    Allocator(TickHash(SortOps(operations)), << >>)

\* counters.entry(operation_hash).or_insert(0)
CounterOf(counters, operation_hash) ==
    IF operation_hash \in DOMAIN counters THEN counters[operation_hash] ELSE 0

\* The number of allocations recorded in counters
TotalCount(counters) ==
    LET RECURSIVE Sum(_)
        Sum(D) == IF D = {} THEN 0
                  ELSE LET d == CHOOSE d \in D : TRUE IN counters[d] + Sum(D \ {d})
    IN  Sum(DOMAIN counters)

\* Variant with one counter for all operations
AllocNodeIdGlobalCounter(a, operation_hash) ==
    [id |-> NodeId(a.tick_hash, operation_hash, TotalCount(a.counters)),
     allocator |->
        [a EXCEPT !.counters =
            [ h \in DOMAIN a.counters \cup { operation_hash } |->
                IF h = operation_hash THEN CounterOf(a.counters, h) + 1
                ELSE a.counters[h] ]]]

\* fn DeterministicIdAllocator::alloc_node_id : the id returned and the
\* allocator after the call
AllocNodeId(a, operation_hash) ==
    [id |-> NodeId(a.tick_hash, operation_hash, CounterOf(a.counters, operation_hash)),
     allocator |->
        [a EXCEPT !.counters =
            [ h \in DOMAIN a.counters \cup { operation_hash } |->
                IF h = operation_hash THEN CounterOf(a.counters, h) + 1
                ELSE a.counters[h] ]]]

\* fn DeterministicIdAllocator::reset_counter
ResetCounter(a) == [a EXCEPT !.counters = << >>]

----------------------------------------------------------------------------
(* State machine                                                           *)
(*                                                                         *)
(*   store : the event store the caller maintains (TestStore.events)       *)
(*   last  : the call in progress: the operation, its arguments and its    *)
(*           result; op = "idle" between calls                             *)

(*   delta : the DeltaSpec the caller holds (NoDelta before the first)     *)
(*   clock : the ClockView the caller holds (NoView before the first)      *)
(*   timer : the TimerView the caller holds (NoView before the first)      *)
(*   applied : the events applied to the view since it was constructed     *)
(*   allocator : the DeterministicIdAllocator the caller holds             *)
(*   calls : the operations the allocator was built for and the calls      *)
(*           made on it since, with the ids they returned                  *)

VARIABLES store, last, delta, clock, timer, applied, allocator, calls

vars == << store, last, delta, clock, timer, applied, allocator, calls >>

\* What the calls on one kind of object leave alone
otherVars    == << delta, clock, timer, applied, allocator, calls >>
nonDeltaVars == << store, clock, timer, applied, allocator, calls >>
nonClockVars == << store, delta, timer, allocator, calls >>
nonTimerVars == << store, delta, clock, allocator, calls >>
nonIdVars    == << store, delta, clock, timer, applied >>

\* Bounds of the envelope API specification
NumOpaque  == 3
MaxParents == 2

\* Bounds of the store validation specification
MaxStore == 2

Lists(S, n) == UNION { [1..k -> S] : k \in 0..n }

\* Parent ids handed to the constructors by the API specification
ApiIds == { Opaque(n) : n \in 1..NumOpaque }

\* CanonicalBytes::from_value on typed values
PayloadValues == { VInt(FALSE, <<1>>), VText(<<97>>) }
Payloads      == { EncodeValue(v).bytes : v \in PayloadValues }

\* Payload bytes as they may arrive on the wire
WirePayloads ==
    Payloads \cup { <<24, 1>>, <<88, 0>>, <<88>>, <<247>>, <<1, 1>>,
                    <<91, 255, 255, 255, 255, 255, 255, 255, 255>> }

ObsTypes       == { None, Some("OBS_CLOCK_SAMPLE_V0") }
AgentIds       == { None, Some("agent") }
Signatures     == { None, Some(<<7>>) }
WireAgentIds   == AgentIds \cup { Some("") }
WireSignatures == Signatures \cup { Some(<<>>) }

Idle == [op |-> "idle", res |-> "Ok", msg |-> "", env |-> NoEnvelope, args |-> <<>>]

Called(op, r, args) ==
    [op |-> op, res |-> r.res, msg |-> r.msg, env |-> r.env, args |-> args]

Constructors == {"new_observation", "new_policy_context", "new_decision", "new_commit"}

Init ==
    /\ store = EmptyStore
    /\ last = Idle
    /\ delta = NoDelta
    /\ clock = NoView
    /\ timer = NoView
    /\ applied = <<>>
    /\ allocator = NoAllocator
    /\ calls = [operations |-> <<>>, log |-> <<>>]

CallNewObservation(payload, parents, observation_type, agent_id, signature) ==
    /\ last.op = "idle"
    /\ last' = Called("new_observation",
                      NewObservation(payload, parents, observation_type, agent_id, signature),
                      [payload |-> payload, parents |-> parents, special |-> None,
                       agent_id |-> agent_id, signature |-> signature])
    /\ UNCHANGED << store, otherVars >>

CallNewPolicyContext(payload, parents, agent_id, signature) ==
    /\ last.op = "idle"
    /\ last' = Called("new_policy_context",
                      NewPolicyContext(payload, parents, agent_id, signature),
                      [payload |-> payload, parents |-> parents, special |-> None,
                       agent_id |-> agent_id, signature |-> signature])
    /\ UNCHANGED << store, otherVars >>

CallNewDecision(payload, evidence_parents, policy_parent, agent_id, signature) ==
    /\ last.op = "idle"
    /\ last' = Called("new_decision",
                      NewDecision(payload, evidence_parents, policy_parent, agent_id, signature),
                      [payload |-> payload, parents |-> evidence_parents,
                       special |-> Some(policy_parent),
                       agent_id |-> agent_id, signature |-> signature])
    /\ UNCHANGED << store, otherVars >>

CallNewCommit(payload, decision_parent, extra_parents, agent_id, signature) ==
    /\ last.op = "idle"
    /\ last' = Called("new_commit",
                      NewCommit(payload, decision_parent, extra_parents, agent_id, signature),
                      [payload |-> payload, parents |-> extra_parents,
                       special |-> Some(decision_parent),
                       agent_id |-> agent_id, signature |-> Some(signature)])
    /\ UNCHANGED << store, otherVars >>

\* serde deserialization of an EventEnvelope from the fields `raw`
CallDeserialize(raw) ==
    /\ last.op = "idle"
    /\ last' = Called("deserialize", DeserializeEnvelope(raw), raw)
    /\ UNCHANGED << store, otherVars >>

\* The caller drops the result of the call.
Discard ==
    /\ last.op # "idle"
    /\ last' = Idle
    /\ UNCHANGED << store, otherVars >>

\* Event ids a sender may put on the wire for (kind, payload, parents)
WireIds(kind, payload, parents) ==
    { ComputeEventId(kind, payload, parents),
      ComputeEventId(kind, payload, CanonicalizeParents(parents)),
      Opaque(0) }

Next ==
    \/ /\ last.op = "idle"
       /\ \E payload \in Payloads, parents \in Lists(ApiIds, MaxParents),
             ot \in ObsTypes, ag \in AgentIds, sg \in Signatures :
            CallNewObservation(payload, parents, ot, ag, sg)
    \/ /\ last.op = "idle"
       /\ \E payload \in Payloads, parents \in Lists(ApiIds, MaxParents),
             ag \in AgentIds, sg \in Signatures :
            CallNewPolicyContext(payload, parents, ag, sg)
    \/ /\ last.op = "idle"
       /\ \E payload \in Payloads, evidence \in Lists(ApiIds, MaxParents),
             policy \in ApiIds, ag \in AgentIds, sg \in Signatures :
            CallNewDecision(payload, evidence, policy, ag, sg)
    \/ /\ last.op = "idle"
       /\ \E payload \in Payloads, decision \in ApiIds,
             extra \in Lists(ApiIds, MaxParents), ag \in AgentIds :
            CallNewCommit(payload, decision, extra, ag, <<7>>)
    \/ /\ last.op = "idle"
       /\ \E kind \in Kinds, payload \in WirePayloads,
             parents \in Lists(ApiIds, MaxParents), ag \in WireAgentIds,
             sg \in WireSignatures, ot \in ObsTypes :
          \E id \in WireIds(kind, payload, parents) :
            CallDeserialize(Envelope(id, kind, payload, parents, ag, sg, ot))
    \/ Discard

Spec == Init /\ [][Next]_vars

----------------------------------------------------------------------------
(* Store validation specification: envelopes are built from ids the caller *)
(* knows, kept in the store, and validated singly or as a batch.           *)

DagPayloads == { EncodeValue(VInt(FALSE, <<1>>)).bytes }

\* Ids the caller can name: one id unknown to every store and the ids of
\* the stored events.
KnownIds == { Opaque(1) } \cup DOMAIN store

\* Signatures worth varying: only a Commit's is ever read by validation.
KindSignatures(kind) == IF kind = "Commit" THEN Signatures ELSE { None }

\* An EventEnvelope struct literal written inside the module, as the
\* validation tests do; the id is the computed one or a forged one.
Literal(kind, payload, parents, signature, forged) ==
    /\ last.op = "idle"
    /\ last' = Called("literal",
                      ROk(Envelope(IF forged THEN Opaque(0)
                                   ELSE ComputeEventId(kind, payload, parents),
                                   kind, payload, parents, None, signature, None)),
                      <<>>)
    /\ UNCHANGED << store, otherVars >>

\* TestStore::insert of an envelope obtained from a constructor
InsertStore ==
    /\ last.op \in Constructors
    /\ last.res = "Ok"
    /\ \/ last.env.event_id \in DOMAIN store
       \/ Cardinality(DOMAIN store) < MaxStore
    /\ store' = StoreInsert(store, last.env)
    /\ last' = Idle
    /\ UNCHANGED otherVars

\* validate_event(&event, &store) on the envelope in hand
CallValidateEvent ==
    /\ last.op \in Constructors \cup {"literal"}
    /\ last.res = "Ok"
    /\ last' = [op |-> "validate_event",
                res |-> ValidateEvent(last.env, store).res,
                msg |-> ValidateEvent(last.env, store).msg,
                env |-> last.env,
                args |-> [by |-> last.op]]
    /\ UNCHANGED << store, otherVars >>

SubStores(st) == { [ h \in D |-> st[h] ] : D \in SUBSET DOMAIN st }

\* Sequences without repetition of at most n members of S
Batches(S, n) ==
    { b \in Lists(S, n) : \A i, j \in DOMAIN b : i # j => b[i] # b[j] }

\* validate_store(&base, &batch): the batch is a sequence of stored
\* envelopes in any order, the base store is a part of the rest
CallValidateStore(base, batch) ==
    /\ last.op = "idle"
    /\ Len(batch) > 0
    /\ \A i \in DOMAIN batch : batch[i].event_id \notin DOMAIN base
    /\ last' = [op |-> "validate_store",
                res |-> ValidateStore(base, batch).res,
                msg |-> ValidateStore(base, batch).msg,
                env |-> NoEnvelope,
                args |-> [base |-> base, batch |-> batch]]
    /\ UNCHANGED << store, otherVars >>

\* Parent lists over the known ids, one (ascending) list per set of ids
AscLists(S) == { SortedSeq(T) : T \in SUBSET S }

NextDag ==
    \/ /\ last.op = "idle"
       /\ \E payload \in DagPayloads, parents \in AscLists(KnownIds) :
            CallNewObservation(payload, parents, None, None, None)
    \/ /\ last.op = "idle"
       /\ \E payload \in DagPayloads, parents \in AscLists(KnownIds) :
            CallNewPolicyContext(payload, parents, None, None)
    \/ /\ last.op = "idle"
       /\ \E payload \in DagPayloads, evidence \in AscLists(KnownIds),
             policy \in KnownIds :
            CallNewDecision(payload, evidence, policy, None, None)
    \/ /\ last.op = "idle"
       /\ \E payload \in DagPayloads, decision \in KnownIds,
             extra \in AscLists(KnownIds) :
            CallNewCommit(payload, decision, extra, None, <<7>>)
    \/ /\ last.op = "idle"
       /\ \E kind \in Kinds, payload \in DagPayloads,
             parents \in AscLists(KnownIds), forged \in BOOLEAN :
          \E sg \in KindSignatures(kind) :
            Literal(kind, payload, parents, sg, forged)
    \/ InsertStore
    \/ CallValidateEvent
    \/ /\ last.op = "idle"
       /\ \E base \in SubStores(store),
             batch \in Batches(Range(store), Cardinality(DOMAIN store)) :
            CallValidateStore(base, batch)
    \/ Discard

SpecDag == Init /\ [][NextDag]_vars

----------------------------------------------------------------------------
(* DeltaSpec specification: the caller builds or decodes a DeltaSpec and,  *)
(* holding it in a mutable binding, may assign to its public fields.       *)

Descriptions == { "", "why" }

PolicyHashes == { Opaque(1), Opaque(2) }

TrustRoots     == Lists({ "alice", "bob" }, 2)
WireTrustRoots == Lists({ "alice", "" }, 2)

InputEvents == { [placeholder |-> 1] }

DeltaKinds ==
    { SchedulerPolicy(h) : h \in PolicyHashes } \cup
    { ClockPolicy(h) : h \in PolicyHashes } \cup
    { TrustPolicy(r) : r \in WireTrustRoots } \cup
    { InputMutation(i, d, <<>>) : i \in Lists(InputEvents, 1), d \in Lists({ Opaque(1) }, 1) }

DeltaCalled(op, r, args) ==
    [op |-> op, res |-> r.res, msg |-> r.msg, env |-> NoEnvelope, args |-> args]

\* The DeltaSpec the caller holds after a call: the new one on success.
Kept(r) == IF r.res = "Ok" THEN r.spec ELSE delta

CallNewSchedulerPolicy(new_policy, description) ==
    /\ last' = DeltaCalled("new_scheduler_policy",
                           NewSchedulerPolicy(new_policy, description),
                           DeltaSpec(SchedulerPolicy(new_policy), description, ZeroHash))
    /\ delta' = Kept(NewSchedulerPolicy(new_policy, description))
    /\ UNCHANGED nonDeltaVars

CallNewClockPolicy(new_policy, description) ==
    /\ last' = DeltaCalled("new_clock_policy",
                           NewClockPolicy(new_policy, description),
                           DeltaSpec(ClockPolicy(new_policy), description, ZeroHash))
    /\ delta' = Kept(NewClockPolicy(new_policy, description))
    /\ UNCHANGED nonDeltaVars

CallNewTrustPolicy(new_trust_roots, description) ==
    /\ last' = DeltaCalled("new_trust_policy",
                           NewTrustPolicy(new_trust_roots, description),
                           DeltaSpec(TrustPolicy(new_trust_roots), description, ZeroHash))
    /\ delta' = Kept(NewTrustPolicy(new_trust_roots, description))
    /\ UNCHANGED nonDeltaVars

CallNewInputMutation(insert, delete, modify, description) ==
    /\ last' = DeltaCalled("new_input_mutation",
                           NewInputMutation(insert, delete, modify, description),
                           DeltaSpec(InputMutation(insert, delete, modify),
                                     description, ZeroHash))
    /\ delta' = Kept(NewInputMutation(insert, delete, modify, description))
    /\ UNCHANGED nonDeltaVars

CallDeserializeDeltaSpec(raw) ==
    /\ last' = DeltaCalled("deserialize_delta", DeserializeDeltaSpec(raw), raw)
    /\ delta' = Kept(DeserializeDeltaSpec(raw))
    /\ UNCHANGED nonDeltaVars

\* `spec.description = description` : the field is pub
AssignDescription(description) ==
    /\ delta # NoDelta
    /\ delta' = [delta EXCEPT !.description = description]
    /\ last' = DeltaCalled("assign_description", DOk(delta), description)
    /\ UNCHANGED nonDeltaVars

\* `spec.kind = kind` : the field is pub
AssignKind(kind) ==
    /\ delta # NoDelta
    /\ delta' = [delta EXCEPT !.kind = kind]
    /\ last' = DeltaCalled("assign_kind", DOk(delta), kind)
    /\ UNCHANGED nonDeltaVars

\* Hashes a sender may put on the wire
WireHashes(kind, description) ==
    { ComputeHash(DeltaSpec(kind, description, ZeroHash)), ZeroHash }

NextDelta ==
    \/ \E h \in PolicyHashes, d \in Descriptions : CallNewSchedulerPolicy(h, d)
    \/ \E h \in PolicyHashes, d \in Descriptions : CallNewClockPolicy(h, d)
    \/ \E r \in TrustRoots, d \in Descriptions : CallNewTrustPolicy(r, d)
    \/ \E i \in Lists(InputEvents, 1), x \in Lists({ Opaque(1) }, 1),
          d \in Descriptions :
            CallNewInputMutation(i, x, <<>>, d)
    \/ \E k \in DeltaKinds, d \in Descriptions :
          \E h \in WireHashes(k, d) :
            CallDeserializeDeltaSpec(DeltaSpec(k, d, h))
    \/ \E d \in Descriptions : AssignDescription(d)
    \/ \E k \in { SchedulerPolicy(Opaque(1)), TrustPolicy(<<"bob">>) } : AssignKind(k)

SpecDelta == Init /\ [][NextDelta]_vars

----------------------------------------------------------------------------
(* Clock view specification: the caller constructs a view, applies events  *)
(* of a worldline to it one by one and queries now_at_cut.                 *)

\* Bound: the number of events applied to one view
MaxEvents == 3

\* tests/common : make_clock_event
MakeClockEvent(source, value_ns, uncertainty_ns) ==
    NewObservation(FromValue(SerializeClockSample(
                       ClockSample(source, value_ns, uncertainty_ns))),
                   <<>>, Some(OBS_CLOCK_SAMPLE_V0), None, None).env

SampleEvents ==
    { MakeClockEvent("Monotonic", <<5>>, <<1>>),
      MakeClockEvent("Monotonic", <<3>>, <<2>>),
      MakeClockEvent("Ntp", <<3, 232>>, <<>>) }

\* A well-formed sample payload carried by events the view must ignore
StrayPayload == FromValue(SerializeClockSample(ClockSample("Monotonic", <<8>>, <<>>)))

\* A payload that lacks the uncertainty_ns field
ShortPayload ==
    FromValue(VMap(<< << VText(TxtSource), VText(TxtMonotonic) >>,
                      << VText(TxtValueNs), VInt(FALSE, <<6>>) >> >>))

\* Events that are no clock samples: an untagged Observation, one tagged
\* for the timer view, a tagged one with a malformed payload, and a tagged
\* PolicyContext (which deserialization accepts).
StrayEvents ==
    { NewObservation(StrayPayload, <<>>, None, None, None).env,
      NewObservation(StrayPayload, <<>>, Some(OBS_TIMER_REQUEST_V0), None, None).env,
      NewObservation(ShortPayload, <<>>, Some(OBS_CLOCK_SAMPLE_V0), None, None).env,
      DeserializeEnvelope(
          Envelope(ComputeEventId("PolicyContext", StrayPayload, <<>>),
                   "PolicyContext", StrayPayload, <<>>, None, None,
                   Some(OBS_CLOCK_SAMPLE_V0))).env }

ClockEvents == SampleEvents \cup StrayEvents

\* Events of the worldline that follow the ones applied so far
Suffixes ==
    { <<>>, << MakeClockEvent("Monotonic", <<5>>, <<1>>) >> }

\* ClockView::new(policy)
CallClockNew(policy) ==
    /\ clock' = ClockNew(policy)
    /\ applied' = <<>>
    /\ last' = [op |-> "clock_new", res |-> "Ok", msg |-> "", env |-> NoEnvelope,
                args |-> policy]
    /\ UNCHANGED nonClockVars

\* view.apply_event(&event)
CallClockApplyEvent(event) ==
    /\ clock # NoView
    /\ Len(applied) < MaxEvents
    /\ clock' = ClockApplyEvent(clock, event)
    /\ applied' = Append(applied, event)
    /\ last' = [op |-> "apply_event", res |-> "Ok", msg |-> "", env |-> event,
                args |-> <<>>]
    /\ UNCHANGED nonClockVars

\* ClockView::now_at_cut(&events, cut, policy) on a worldline that starts
\* with the applied events, under the policy of the view
CallNowAtCut(suffix, cut) ==
    /\ clock # NoView
    /\ \E out \in { NowAtCut(applied \o suffix, cut, clock.policy) } :
          last' = [op |-> "now_at_cut", res |-> out.res,
                   msg |-> "", env |-> NoEnvelope,
                   args |-> [events |-> applied \o suffix, cut |-> cut,
                             policy |-> clock.policy],
                   out |-> out]
    /\ UNCHANGED << clock, applied >>
    /\ UNCHANGED nonClockVars

\* Cuts worth asking for: none, the applied prefix, one past the end
Cuts(suffix) ==
    { 0, Len(applied), Len(applied) + Len(suffix) + 1 }

NextClock ==
    \/ \E policy \in ClockPolicies : CallClockNew(policy)
    \/ \E event \in ClockEvents : CallClockApplyEvent(event)
    \/ \E suffix \in Suffixes : \E cut \in Cuts(suffix) : CallNowAtCut(suffix, cut)

SpecClock == Init /\ [][NextClock]_vars

----------------------------------------------------------------------------
(* Timer view specification: the caller constructs a view, applies events  *)
(* to it and asks for the pending timers at times a clock view reported.   *)

\* tests/common : make_timer_request
MakeTimerRequest(request_id, duration_ns, requested_at_ns) ==
    NewObservation(FromValue(SerializeTimerRequest(
                       TimerRequest(request_id, duration_ns, requested_at_ns))),
                   <<>>, Some(OBS_TIMER_REQUEST_V0), None, None).env

\* tests/timer_replay_safety : make_timer_fire
MakeTimerFire(request_id, fired_at_ns, request_event_id) ==
    NewDecision(FromValue(SerializeTimerFire(TimerFire(request_id, fired_at_ns))),
                << request_event_id >>,
                NewPolicyContext(FromValue(VText(<<116, 105, 109, 101, 114, 95, 112, 111, 108, 105, 99, 121>>)),
                                 <<>>, None, None).env.event_id,
                None, None).env

\* Requests: one due at 5, one whose deadline saturates, one due at 4 that
\* shares the request_id of the first
RequestEvents ==
    { MakeTimerRequest(Opaque(1), <<5>>, <<>>),
      MakeTimerRequest(Opaque(2), <<1>>, U64Max),
      MakeTimerRequest(Opaque(1), <<4>>, <<>>) }

FireEvents ==
    { MakeTimerFire(Opaque(1), <<5>>,
                    MakeTimerRequest(Opaque(1), <<5>>, <<>>).event_id) }

\* Events that are no timer events: a tagged request lacking a field, a
\* Decision that is no fire, a clock sample
TimerStrayEvents ==
    { NewObservation(ShortPayload, <<>>, Some(OBS_TIMER_REQUEST_V0), None, None).env,
      NewDecision(StrayPayload, << Opaque(1) >>, Opaque(2), None, None).env,
      MakeClockEvent("Monotonic", <<5>>, <<1>>) }

TimerEvents == RequestEvents \cup FireEvents \cup TimerStrayEvents

\* Times a clock view reports: unknown, 5 ns twice (two domains), 4 ns, u64::MAX
TimerTimes ==
    { ClockNow(ClockApplyEvent(ClockNew(policy), event)) :
        policy \in ClockPolicies,
        event \in { MakeClockEvent("Monotonic", <<5>>, <<1>>),
                    MakeClockEvent("Ntp", <<5>>, <<>>),
                    MakeClockEvent("Monotonic", <<4>>, <<>>),
                    MakeClockEvent("Ntp", U64Max, <<>>) } }

\* TimerView::new()
CallTimerNew ==
    /\ timer' = TimerNew
    /\ applied' = <<>>
    /\ last' = [op |-> "timer_new", res |-> "Ok", msg |-> "", env |-> NoEnvelope,
                args |-> <<>>]
    /\ UNCHANGED nonTimerVars

\* view.apply_event(&event)
CallTimerApplyEvent(event) ==
    /\ timer # NoView
    /\ Len(applied) < MaxEvents
    /\ \E r \in { TimerApplyEvent(timer, event) } :
          /\ timer' = r.view
          /\ last' = [op |-> "timer_apply_event", res |-> r.res, msg |-> "",
                      env |-> event, args |-> <<>>, out |-> r.id]
    /\ applied' = Append(applied, event)
    /\ UNCHANGED nonTimerVars

\* view.pending_timers(&current_time) : takes &self
CallPendingTimers(current_time) ==
    /\ timer # NoView
    /\ last' = [op |-> "pending_timers", res |-> "Ok", msg |-> "",
                env |-> NoEnvelope, args |-> [current_time |-> current_time],
                out |-> PendingTimers(timer, current_time)]
    /\ UNCHANGED << timer, applied >>
    /\ UNCHANGED nonTimerVars

NextTimer ==
    \/ CallTimerNew
    \/ \E event \in TimerEvents : CallTimerApplyEvent(event)
    \/ \E current_time \in TimerTimes : CallPendingTimers(current_time)

SpecTimer == Init /\ [][NextTimer]_vars

\* The payloads of a timer request and of a timer fire
RequestPayload ==
    FromValue(SerializeTimerRequest(TimerRequest(Opaque(1), <<5>>, <<>>)))
FirePayload == FromValue(SerializeTimerFire(TimerFire(Opaque(1), <<5>>)))

\* Events the timer view has no use for: a PolicyContext and a Commit that
\* carry the payload of a fire, an untagged Observation and one tagged as a
\* clock sample that carry the payload of a request, a Decision whose
\* payload is no fire
IgnoredTimerEvents ==
    { NewPolicyContext(FirePayload, <<>>, None, None).env,
      NewCommit(FirePayload, Opaque(1), <<>>, None, <<7>>).env,
      NewObservation(RequestPayload, <<>>, None, None, None).env,
      NewObservation(RequestPayload, <<>>, Some(OBS_CLOCK_SAMPLE_V0), None, None).env,
      NewDecision(RequestPayload, << Opaque(1) >>, Opaque(2), None, None).env }

\* A request that is due at once (duration 0, requested at 0), the fire of
\* which is in FireEvents, and a request due at 5
MixedRequests ==
    { MakeTimerRequest(Opaque(1), <<>>, <<>>),
      MakeTimerRequest(Opaque(2), <<5>>, <<>>) }

\* The times of TimerTimes and a known time of 0 ns
MixedTimes ==
    TimerTimes \cup
    { ClockNow(ClockApplyEvent(ClockNew("TrustMonotonicLatest"),
                               MakeClockEvent("Monotonic", <<>>, <<1>>))) }

\* The same calls on a worldline that mixes two requests and a fire with the
\* events of other concerns
NextTimerMixed ==
    \/ CallTimerNew
    \/ \E event \in MixedRequests \cup FireEvents \cup IgnoredTimerEvents :
          CallTimerApplyEvent(event)
    \/ \E current_time \in MixedTimes : CallPendingTimers(current_time)

SpecTimerMixed == Init /\ [][NextTimerMixed]_vars

----------------------------------------------------------------------------
(* Id allocator specification: the caller builds an allocator for a tick   *)
(* and calls alloc_node_id and reset_counter on it in any order.           *)

\* Bound: the number of operations of a tick
MaxOps == 3

\* Bound: the number of calls made on one allocator
MaxCalls == 3

\* Operation hashes
TickOps == { Opaque(1), Opaque(2), Opaque(3) }

AllocCall(operation_hash, id) ==
    [call |-> "alloc", operation |-> operation_hash, id |-> id]

ResetCall == [call |-> "reset", operation |-> ZeroHash, id |-> ZeroHash]

\* DeterministicIdAllocator::new_for_tick(&operations)
CallNewForTick(operations) ==
    /\ allocator' = NewForTick(operations)
    /\ calls' = [operations |-> operations, log |-> <<>>]
    /\ last' = [op |-> "new_for_tick", res |-> "Ok", msg |-> "", env |-> NoEnvelope,
                args |-> [operations |-> operations]]
    /\ UNCHANGED nonIdVars

\* allocator.alloc_node_id(operation_hash)
CallAllocNodeId(operation_hash) ==
    /\ allocator # NoAllocator
    /\ Len(calls.log) < MaxCalls
    /\ \E r \in { AllocNodeId(allocator, operation_hash) } :
          /\ allocator' = r.allocator
          /\ calls' = [calls EXCEPT !.log = Append(@, AllocCall(operation_hash, r.id))]
          /\ last' = [op |-> "alloc_node_id", res |-> "Ok", msg |-> "",
                      env |-> NoEnvelope,
                      args |-> [operation_hash |-> operation_hash], out |-> r.id]
    /\ UNCHANGED nonIdVars

\* allocator.reset_counter()
CallResetCounter ==
    /\ allocator # NoAllocator
    /\ Len(calls.log) < MaxCalls
    /\ allocator' = ResetCounter(allocator)
    /\ calls' = [calls EXCEPT !.log = Append(@, ResetCall)]
    /\ last' = [op |-> "reset_counter", res |-> "Ok", msg |-> "", env |-> NoEnvelope,
                args |-> <<>>]
    /\ UNCHANGED nonIdVars

NextIds ==
    \/ \E operations \in Lists(TickOps, MaxOps) : CallNewForTick(operations)
    \/ \E operation_hash \in TickOps : CallAllocNodeId(operation_hash)
    \/ CallResetCounter

SpecIds == Init /\ [][NextIds]_vars

----------------------------------------------------------------------------
(* Codec specification: the caller encodes logical values and decodes byte *)
(* sequences (canonical encodings, their truncations, and bytes written by *)
(* other encoders) with canonical::encode and canonical::decode at         *)
(* T = ciborium::Value.                                                    *)

\* Bound: the number of items of a generated array and entries of a map
MaxItems == 2

\* Integer arguments at the edges of the five header widths
CodecMags ==
    { <<>>, <<23>>, <<24>>, <<255>>, <<1, 0>>, <<255, 255>>, <<1, 0, 0>>,
      AllOnes(4), <<1, 0, 0, 0, 0>>, AllOnes(8) }

\* f64 bit patterns: 1.5, 2.0, -3.0, +0, -0, the smallest subnormal, the
\* canonical NaN, a NaN with a payload, +inf, -inf, 2^53 + 2, 2^64, 1e20,
\* 2^127, -2^127 and 2^128
CodecFloats ==
    { <<63, 248, 0, 0, 0, 0, 0, 0>>, <<64, 0, 0, 0, 0, 0, 0, 0>>,
      <<192, 8, 0, 0, 0, 0, 0, 0>>, PlusZero, <<128, 0, 0, 0, 0, 0, 0, 0>>,
      <<0, 0, 0, 0, 0, 0, 0, 1>>, CanonNaN, <<127, 240, 0, 0, 0, 0, 0, 1>>,
      <<127, 240, 0, 0, 0, 0, 0, 0>>, <<255, 240, 0, 0, 0, 0, 0, 0>>,
      <<67, 64, 0, 0, 0, 0, 0, 1>>, <<67, 240, 0, 0, 0, 0, 0, 0>>,
      <<68, 21, 175, 29, 120, 181, 140, 64>>,
      <<71, 224, 0, 0, 0, 0, 0, 0>>, <<199, 224, 0, 0, 0, 0, 0, 0>>,
      <<71, 240, 0, 0, 0, 0, 0, 0>> }

Zebra == <<122, 101, 98, 114, 97>>
Apple == <<97, 112, 112, 108, 101>>

\* A string of 24 bytes, the shortest with a one-byte length argument
Long24 == [ i \in 1..24 |-> 97 ]

CodecAtoms ==
    { VBool(TRUE), VBool(FALSE), VNull } \cup
    { VInt(neg, m) : neg \in BOOLEAN, m \in CodecMags } \cup
    { VFloat(f) : f \in CodecFloats } \cup
    { VBytes(b) : b \in { <<>>, <<1>>, Long24 } } \cup
    { VText(b) : b \in { <<>>, <<97>>, Zebra, Apple, Long24 } }

\* Items of the generated arrays and values of the generated maps
ItemValues == { VInt(FALSE, <<1>>), VInt(FALSE, <<2>>), VText(<<97>>),
                VBytes(<<>>), VArray(<<>>) }
MapValues  == { VInt(FALSE, <<1>>), VInt(FALSE, <<2>>) }

\* Keys of the generated maps; the float 2.0 encodes as the integer 2
KeyValues == { VText(Zebra), VText(Apple), VInt(FALSE, <<2>>),
               VFloat(<<64, 0, 0, 0, 0, 0, 0, 0>>) }

CodecEntries == Lists(KeyValues \X MapValues, MaxItems)

\* An array of 24 items and a map of 24 entries, the smallest with a
\* one-byte length argument
Array24 == VArray([ i \in 1..24 |-> VInt(FALSE, <<>>) ])
Map24   == VMap([ i \in 1..24 |-> << VInt(FALSE, MagOf(i - 1)), VNull >> ])

VTag == [t |-> "tag"]

CodecValues ==
    CodecAtoms \cup
    { VArray(items) : items \in Lists(ItemValues, MaxItems) } \cup
    { VMap(entries) : entries \in CodecEntries } \cup
    { Array24, Map24, VTag, VArray(<< VTag >>), VMap(<< << VTag, VNull >> >>),
      VMap(<< << VInt(FALSE, <<1>>), VTag >> >>),
      VArray(<< VMap(<< << VText(Apple), VArray(<< VFloat(CanonNaN) >>) >> >>) >>) }

\* The canonical encodings of the values
Encodings == { EncodeValue(v).bytes : v \in { w \in CodecValues : EncodeValue(w).err = "Ok" } }

\* The strict prefixes of a byte sequence
StrictPrefixes(b) == { SubSeq(b, 1, k) : k \in 0..(Len(b) - 1) }

Truncations == UNION { StrictPrefixes(b) : b \in Encodings }

\* A map written by an encoder that keeps the entries in the order given
WireMap(entries) ==
    EncLen(5, Len(entries)) \o
    Concat([ i \in DOMAIN entries |->
                EncodeValue(entries[i][1]).bytes \o EncodeValue(entries[i][2]).bytes ])

WireMaps == { WireMap(entries) : entries \in CodecEntries }

\* Bytes written by other encoders: wider headers than needed for an
\* integer, a byte string, a text string, an array and a map; undefined;
\* floats of other widths and an integral float; a tag, an indefinite
\* length, trailing bytes, reserved additional information, a simple value;
\* a truncated length inside an array; lengths of 2^64 - 1 and 2^63
Foreign ==
    { <<24, 1>>, <<25, 0, 255>>, <<88, 1, 65>>, <<120, 1, 97>>, <<152, 1, 1>>,
      <<184, 1, 1, 1>>, <<89, 0, 1, 65>>, <<247>>,
      <<249, 60, 0>>, <<250, 63, 192, 0, 0>>, <<251, 64, 0, 0, 0, 0, 0, 0, 0>>,
      <<251, 128, 0, 0, 0, 0, 0, 0, 0>>, <<251, 127, 240, 0, 0, 0, 0, 0, 1>>,
      <<192, 1>>, <<95>>, <<159>>, <<1, 1>>, <<28>>, <<248, 32>>, <<224>>,
      <<130, 89, 1>>, <<97, 255>>,
      <<91>> \o AllOnes(8), <<123>> \o AllOnes(8),
      <<155>> \o AllOnes(8), <<187>> \o AllOnes(8),
      <<155, 128, 0, 0, 0, 0, 0, 0, 0>>, <<154, 255, 255, 255, 255>> }

CodecInputs == Encodings \cup Truncations \cup WireMaps \cup Foreign

\* canonical::decode::<Value>(bytes)
CallDecodeValue(bytes) ==
    /\ last.op = "idle"
    /\ \E r \in { DecodeValue(bytes) } :
          last' = [op |-> "decode_value", res |-> r.err, msg |-> "",
                   env |-> NoEnvelope, args |-> [bytes |-> bytes], out |-> r.val]
    /\ UNCHANGED << store, otherVars >>

\* canonical::encode(&value)
CallEncodeValue(value) ==
    /\ last.op = "idle"
    /\ \E r \in { EncodeValue(value) } :
          last' = [op |-> "encode_value", res |-> r.err, msg |-> "",
                   env |-> NoEnvelope, args |-> [value |-> value], out |-> r.bytes]
    /\ UNCHANGED << store, otherVars >>

NextCodec ==
    \/ \E bytes \in CodecInputs : CallDecodeValue(bytes)
    \/ \E value \in CodecValues : CallEncodeValue(value)
    \/ Discard

SpecCodec == Init /\ [][NextCodec]_vars

----------------------------------------------------------------------------
(* Claims about the envelope API (specification Spec)                      *)

Returned(ops) == last.op \in ops /\ last.res = "Ok"

\* C1: every envelope returned by a constructor, whatever the input parent
\* list (unsorted, with duplicates), passes verify_event_id and has
\* strictly increasing parents.
C1_ConstructorsCanonical ==
    Returned(Constructors) =>
        /\ VerifyEventId(last.env)
        /\ StrictlyIncreasing(last.env.parents)

\* C1 witness: new_observation returned for a list given in descending order.
C1_Witness ==
    /\ Returned({"new_observation"})
    /\ Len(last.args.parents) = 2
    /\ HashLess(last.args.parents[2], last.args.parents[1])
    /\ Len(last.env.parents) = 2

\* The policies a Decision could have been built with instead: ids other
\* than its policy_parent and outside its evidence.
OtherPolicies ==
    ApiIds \ ({ last.args.special[1] } \cup Range(last.args.parents))

\* C2: policy separation: the same Decision built with another policy_parent
\* (neither in the evidence) has another event_id.
C2_PolicySeparation ==
    Returned({"new_decision"}) =>
        \A p2 \in OtherPolicies :
            LET d2 == NewDecision(last.args.payload, last.args.parents, p2,
                                  last.args.agent_id, last.args.signature)
            IN  d2.res = "Ok" /\ d2.env.event_id # last.env.event_id

\* C2 witness: a Decision was returned and another policy was available.
C2_Witness ==
    /\ Returned({"new_decision"})
    /\ OtherPolicies # {}

\* The store-independent invariants of an envelope.
PayloadIsCanonical(bytes) ==
    /\ DecodeValue(bytes).err = "Ok"
    /\ EncodeValue(DecodeValue(bytes).val) = EncOk(bytes)

Hardened(e) ==
    /\ e.event_id = ComputeEventId(e.kind, e.payload, e.parents)
    /\ StrictlyIncreasing(e.parents)
    /\ PayloadIsCanonical(e.payload)
    /\ e.agent_id # Some("")
    /\ e.signature # Some(<<>>)

\* C9: an envelope accepted by deserialization has a correct event_id,
\* strictly increasing parents, canonical payload bytes and non-empty
\* agent_id and signature; an input violating one of these is a decode
\* error and yields no envelope.
C9_DeserializeHardened ==
    last.op = "deserialize" =>
        /\ last.res = "Ok" => last.env = last.args /\ Hardened(last.env)
        /\ ~Hardened(last.args) =>
              last.res = "DecodeError" /\ last.env = NoEnvelope

\* C10: observation_type is present only on Observations, for every
\* envelope returned by a constructor or accepted by deserialization.
C10_ObservationTypeOnlyOnObservation ==
    Returned(Constructors \cup {"deserialize"}) =>
        (last.env.observation_type # None => last.env.kind = "Observation")

----------------------------------------------------------------------------
(* Claims about store-backed validation (specification SpecDag)            *)

AllResolve(e, st) == \A i \in DOMAIN e.parents : Resolves(st, e.parents[i])

ParentsOfKind(e, st, kind) ==
    { i \in DOMAIN e.parents : st[e.parents[i]].kind = kind }

\* C3: a Decision returned by new_decision has exactly one PolicyContext
\* parent in a store that contains all of its parents.
C3_DecisionHasOnePolicy ==
    (Returned({"new_decision"}) /\ AllResolve(last.env, store)) =>
        Cardinality(ParentsOfKind(last.env, store, "PolicyContext")) = 1

\* C4: a Commit returned by new_commit has a Decision parent in a store
\* that contains all of its parents.
C4_CommitHasDecisionParent ==
    (Returned({"new_commit"}) /\ AllResolve(last.env, store)) =>
        ParentsOfKind(last.env, store, "Decision") # {}

Validated(kinds) ==
    /\ last.op = "validate_event"
    /\ last.env.kind \in kinds

WellFormed(e, st) ==
    /\ e.event_id = ComputeEventId(e.kind, e.payload, e.parents)
    /\ StrictlyIncreasing(e.parents)
    /\ AllResolve(e, st)

\* C5: for a Decision with a correct id and strictly increasing, resolving
\* parents, validate_event returns Ok exactly when one parent is a
\* PolicyContext and some parent is not; otherwise ValidationError.
C5_DecisionRule ==
    (Validated({"Decision"}) /\ WellFormed(last.env, store)) =>
        LET policies == ParentsOfKind(last.env, store, "PolicyContext") IN
        /\ last.res = "Ok" <=>
              /\ Cardinality(policies) = 1
              /\ DOMAIN last.env.parents \ policies # {}
        /\ last.res \in {"Ok", "ValidationError"}

\* C5 witness: a Decision whose only parent is a PolicyContext is rejected.
C5_Witness ==
    /\ Validated({"Decision"}) /\ WellFormed(last.env, store)
    /\ Len(last.env.parents) = 1
    /\ Cardinality(ParentsOfKind(last.env, store, "PolicyContext")) = 1
    /\ last.res = "ValidationError"

\* C6: for a Commit with a correct id and strictly increasing, resolving
\* parents, validate_event returns Ok exactly when some parent is a
\* Decision and the signature is present; otherwise ValidationError.
C6_CommitRule ==
    (Validated({"Commit"}) /\ WellFormed(last.env, store)) =>
        /\ last.res = "Ok" <=>
              /\ ParentsOfKind(last.env, store, "Decision") # {}
              /\ last.env.signature # None
        /\ last.res \in {"Ok", "ValidationError"}

\* C6 witness: a Commit with a Decision parent but no signature is rejected.
C6_Witness ==
    /\ Validated({"Commit"}) /\ WellFormed(last.env, store)
    /\ ParentsOfKind(last.env, store, "Decision") # {}
    /\ last.env.signature = None
    /\ last.res = "ValidationError"

\* C7: validate_event returns ValidationError, never Ok, for an event of any
\* kind one of whose parents does not resolve in the store.
C7_DanglingParentRejected ==
    (Validated(Kinds) /\ ~AllResolve(last.env, store)) =>
        last.res = "ValidationError"

\* C7 witness: an Observation from the constructor, with a correct id, one
\* resolving and one dangling parent, is rejected.
C7_Witness ==
    /\ Validated({"Observation"})
    /\ last.args.by = "new_observation"
    /\ \E i, j \in DOMAIN last.env.parents :
          Resolves(store, last.env.parents[i]) /\ ~Resolves(store, last.env.parents[j])
    /\ last.res = "ValidationError"

\* The base store extended with a batch prefix, later members winning.
RECURSIVE Extended(_, _)
Extended(base, prefix) ==
    IF Len(prefix) = 0 THEN base
    ELSE LET st == Extended(base, SubSeq(prefix, 1, Len(prefix) - 1))
             e  == prefix[Len(prefix)]
         IN  [ h \in DOMAIN st \cup { e.event_id } |->
                 IF h = e.event_id THEN e ELSE st[h] ]

\* C8: validate_store(base, batch) returns Ok exactly when every batch[i]
\* passes validate_event against the base store extended with the batch
\* members before it.
C8_BatchValidation ==
    last.op = "validate_store" =>
        LET base  == last.args.base
            batch == last.args.batch
        IN  last.res = "Ok" <=>
              \A i \in DOMAIN batch :
                 ValidateEvent(batch[i],
                               Extended(base, SubSeq(batch, 1, i - 1))).res = "Ok"

\* C8 witness: a batch in topological order, whose second member has the
\* first as a parent, validates against the empty base store.
C8_Witness ==
    /\ last.op = "validate_store"
    /\ last.args.base = EmptyStore
    /\ Len(last.args.batch) = 2
    /\ last.args.batch[1].event_id \in Range(last.args.batch[2].parents)
    /\ last.res = "Ok"

----------------------------------------------------------------------------
(* Further claims about the envelope API (specification Spec)              *)

\* C11: every Commit envelope returned by new_commit or accepted by
\* deserialization carries a signature, and the signature is not empty.
C11_CommitCarriesSignature ==
    (Returned(Constructors \cup {"deserialize"}) /\ last.env.kind = "Commit") =>
        /\ last.env.signature # None
        /\ last.env.signature # Some(<<>>)

\* C11 witness: a Commit accepted by deserialization.
C11_Witness ==
    /\ Returned({"deserialize"})
    /\ last.env.kind = "Commit"
    /\ Len(last.env.parents) = 1

\* C12: new_decision fails with InvalidStructure exactly when the evidence
\* is empty or contains the policy parent; otherwise it succeeds and the
\* parents are exactly the evidence ids together with the policy parent.
C12_NewDecisionStructure ==
    last.op = "new_decision" =>
        LET evidence == last.args.parents
            policy   == last.args.special[1]
            invalid  == Len(evidence) = 0 \/ policy \in Range(evidence)
        IN  /\ last.res = (IF invalid THEN "InvalidStructure" ELSE "Ok")
            /\ invalid => last.env = NoEnvelope
            /\ ~invalid =>
                  /\ Range(last.env.parents) = Range(evidence) \cup { policy }
                  /\ Len(last.env.parents) = Cardinality(Range(evidence)) + 1

\* C12 witness: a Decision built from an evidence list with a duplicate.
C12_Witness ==
    /\ Returned({"new_decision"})
    /\ Len(last.args.parents) = 2
    /\ Cardinality(Range(last.args.parents)) = 1

\* The call in `last` made again with other arguments.
Recall(parents, agent_id, signature, observation_type) ==
    CASE last.op = "new_observation" ->
            NewObservation(last.args.payload, parents, observation_type,
                           agent_id, signature)
      [] last.op = "new_policy_context" ->
            NewPolicyContext(last.args.payload, parents, agent_id, signature)
      [] last.op = "new_decision" ->
            NewDecision(last.args.payload, parents, last.args.special[1],
                        agent_id, signature)
      [] last.op = "new_commit" ->
            NewCommit(last.args.payload, last.args.special[1], parents,
                      agent_id, IF signature = None THEN <<9>> ELSE signature[1])

\* C13: for each constructor, a call with the same payload and a parent
\* list that is equal as a set (any order, any multiplicity) returns the
\* same event_id and the same parents sequence.
C13_ParentListAsSet ==
    Returned(Constructors) =>
        \A ps \in Lists(ApiIds, MaxParents) :
            Range(ps) = Range(last.args.parents) =>
                LET r == Recall(ps, last.env.agent_id, last.args.signature, None) IN
                /\ r.res = "Ok"
                /\ r.env.event_id = last.env.event_id
                /\ r.env.parents = last.env.parents

\* C13 witness: a constructor returned for a list of two different ids,
\* which the other order also denotes.
C13_Witness ==
    /\ Returned(Constructors)
    /\ Len(last.args.parents) = 2
    /\ last.args.parents[1] # last.args.parents[2]

\* C14: the event_id depends on (kind, payload, parents) only: the same
\* call with any other agent_id, signature or observation_type returns the
\* same event_id, which is the hash of the triple alone.
C14_IdDependsOnTripleOnly ==
    /\ Returned(Constructors) =>
          \A ag \in AgentIds, sg \in Signatures, ot \in ObsTypes :
              Recall(last.args.parents, ag, sg, ot).env.event_id = last.env.event_id
    /\ Returned(Constructors \cup {"deserialize"}) =>
          last.env.event_id =
              ComputeEventId(last.env.kind, last.env.payload, last.env.parents)

\* C14 witness: an Observation built with an agent, a signature and a tag.
C14_Witness ==
    /\ Returned({"new_observation"})
    /\ last.env.agent_id # None
    /\ last.env.signature # None
    /\ last.env.observation_type # None

----------------------------------------------------------------------------
(* Claims about DeltaSpec (specification SpecDelta)                        *)

\* C15: a DeltaSpec is immutable after construction: whatever the caller
\* does with the DeltaSpec it holds, its hash stays the hash of its kind and
\* description.
C15_DeltaSpecImmutable ==
    delta # NoDelta => delta.hash = ComputeHash(delta)

\* The calls that hand a DeltaSpec to the caller
DeltaSources ==
    { "new_scheduler_policy", "new_clock_policy", "new_trust_policy",
      "new_input_mutation", "deserialize_delta" }

C28_RejectionWitness ==
    /\ last.op = "deserialize_delta"
    /\ last.args.hash # ComputeHash(last.args)
    /\ last.res = "DecodeError"
    /\ delta # NoDelta

\* C29: a DeltaSpec of kind TrustPolicy returned by new_trust_policy or
\* accepted by deserialization has at least one trust root.
C29_TrustRootsNonEmpty ==
    (Returned({"new_trust_policy", "deserialize_delta"})
        /\ delta.kind.type = "TrustPolicy") =>
            Len(delta.kind.new_trust_roots) > 0

\* C30: new_trust_policy with an empty list returns InvalidStructure and no
\* DeltaSpec, so the caller keeps what it held; with a non-empty list it
\* returns the finalized TrustPolicy DeltaSpec.
C30_NewTrustPolicyRejectsEmpty ==
    [][ last'.op = "new_trust_policy" =>
          IF Len(last'.args.kind.new_trust_roots) = 0
          THEN last'.res = "InvalidStructure" /\ delta' = delta
          ELSE /\ last'.res = "Ok"
               /\ delta'.kind = TrustPolicy(last'.args.kind.new_trust_roots)
               /\ delta'.description = last'.args.description
               /\ delta'.hash = ComputeHash(delta') ]_vars

\* C30 witness: new_trust_policy was called with an empty list and refused
\* it, the caller holding a DeltaSpec from an earlier call.
C30_Witness ==
    /\ last.op = "new_trust_policy"
    /\ Len(last.args.kind.new_trust_roots) = 0
    /\ last.res = "InvalidStructure"
    /\ delta # NoDelta

----------------------------------------------------------------------------
(* Claims about the clock view (specification SpecClock)                   *)

\* C16: now_at_cut(seq, k, p) equals now() of a fresh ClockView::new(p) to
\* which the first k events of seq were applied one by one with apply_event:
\* the view of the state machine is such a view for the applied events, and
\* every queried sequence starts with them.
C16_NowAtCutIsFold ==
    (last.op = "now_at_cut" /\ last.args.cut = Len(applied)) =>
        /\ last.res = "Ok"
        /\ SubSeq(last.args.events, 1, last.args.cut) = applied
        /\ last.out.time = Some(ClockNow(clock))

\* C16 witness: a cut strictly inside a sequence, after a sample of the
\* policy's source has been applied.
C16_Witness ==
    /\ last.op = "now_at_cut"
    /\ last.args.cut = Len(applied)
    /\ Len(applied) >= 2
    /\ Len(last.args.events) > last.args.cut
    /\ ClockNow(clock) # TimeUnknown
    /\ last.out.time = Some(ClockNow(clock))

\* The source a policy trusts and the domain of the time it reports
TrustedSource(policy) ==
    IF policy = "TrustMonotonicLatest" THEN "Monotonic" ELSE "Ntp"

TrustedDomain(policy) ==
    IF policy = "TrustMonotonicLatest" THEN "Monotonic" ELSE "Unix"

\* The event is a tagged Observation whose payload decodes as a sample of src
IsSampleOf(event, src) ==
    /\ event.kind = "Observation"
    /\ event.observation_type = Some(OBS_CLOCK_SAMPLE_V0)
    /\ ToClockSample(event.payload) # None
    /\ ToClockSample(event.payload)[1].source = src

\* Positions of the applied events that are samples of the trusted source
TrustedPositions ==
    { i \in DOMAIN applied : IsSampleOf(applied[i], TrustedSource(clock.policy)) }

C18_CutOutOfBounds ==
    last.op = "now_at_cut" =>
        /\ last.res \in {"Ok", "CutOutOfBounds"}
        /\ last.res = "CutOutOfBounds" <=> last.args.cut > Len(last.args.events)
        /\ last.res = "CutOutOfBounds" =>
              /\ last.out.cut = last.args.cut
              /\ last.out.len = Len(last.args.events)
              /\ last.out.time = None
        /\ last.res = "Ok" => last.out.time # None
        /\ last.args.cut = 0 => last.out.time = Some(TimeUnknown)

\* C18 witness: the smallest cut out of bounds of a non-empty sequence whose
\* full prefix has a known time.
C18_Witness ==
    /\ last.op = "now_at_cut"
    /\ last.res = "CutOutOfBounds"
    /\ last.out.cut = Len(last.args.events) + 1
    /\ last.out.len >= 2
    /\ NowAtCut(last.args.events, last.out.len, last.args.policy).time
           \notin { None, Some(TimeUnknown) }

\* The events the clock view has to ignore
Ignored(event) ==
    \/ event.kind # "Observation"
    \/ event.observation_type # Some(OBS_CLOCK_SAMPLE_V0)
    \/ ToClockSample(event.payload) = None

----------------------------------------------------------------------------
(* Claims about the timer view (specification SpecTimer)                   *)

\* The positions of the requests that are due at ns and not fired
DuePositions(requests, fired_ids, ns) ==
    { i \in DOMAIN requests :
        /\ requests[i].request.request_id \notin fired_ids
        /\ MagLeq(SaturatingAdd(requests[i].request.requested_at_ns,
                                requests[i].request.duration_ns), ns) }

\* The records at the positions P of requests, in the order of requests
RECURSIVE InOrder(_, _, _)
InOrder(requests, P, i) ==
    IF i > Len(requests) THEN <<>>
    ELSE (IF i \in P THEN << requests[i] >> ELSE <<>>) \o InOrder(requests, P, i + 1)

\* C20: pending_timers(t) is a function of (requests, fired_ids, t.ns) alone:
\* it returns, in the order the requests were applied, exactly the requests
\* whose request_id is not in fired_ids and whose deadline requested_at_ns +
\* duration_ns (saturating) is at most t.ns, each with the event_id of the
\* event that requested it; a time with the same ns gives the same answer,
\* and the call is a read of the view.
C20_PendingTimers ==
    last.op = "pending_timers" =>
        /\ last.out = InOrder(timer.requests,
                              DuePositions(timer.requests, timer.fired_ids,
                                           last.args.current_time.ns), 1)
        /\ \A i \in DOMAIN last.out :
              \E j \in DOMAIN applied :
                 /\ applied[j].event_id = last.out[i].event_id
                 /\ applied[j].observation_type = Some(OBS_TIMER_REQUEST_V0)
                 /\ ToTimerRequest(applied[j].payload) = Some(last.out[i].request)
        /\ \A t2 \in TimerTimes :
              t2.ns = last.args.current_time.ns =>
                  PendingTimers(timer, t2) = last.out

\* C20 witness: two requests and a fire were applied; the first request is
\* fired and left out, the second one is due and returned.
C20_Witness ==
    /\ last.op = "pending_timers"
    /\ Len(timer.requests) = 2
    /\ timer.fired_ids # {}
    /\ Len(last.out) = 1
    /\ last.out[1] = timer.requests[2]
    /\ last.out[1].request.request_id \notin timer.fired_ids

\* The positions of the applied events that are Decisions decoding as a fire
FirePositions ==
    { j \in DOMAIN applied :
        applied[j].kind = "Decision" /\ ToTimerFire(applied[j].payload) # None }

\* The request ids fired by the applied events
FiredInHistory ==
    { ToTimerFire(applied[j].payload)[1].request_id : j \in FirePositions }

\* C21: once a Decision decoding as TimerFire with request_id r has been
\* applied, pending_timers returns no request with request_id r, at any time
\* and whatever was applied afterwards, requests with that id included.
C21_FiredNeverPending ==
    timer # NoView =>
        \A t \in TimerTimes :
            \A i \in DOMAIN PendingTimers(timer, t) :
                PendingTimers(timer, t)[i].request.request_id \notin FiredInHistory

\* C21 witness: a request was applied after the fire of its request_id, its
\* deadline has passed, and pending_timers does not return it.
C21_Witness ==
    /\ last.op = "pending_timers"
    /\ last.args.current_time.ns = U64Max
    /\ \E j \in FirePositions : \E k \in DOMAIN applied :
          /\ k > j
          /\ applied[k].observation_type = Some(OBS_TIMER_REQUEST_V0)
          /\ ToTimerRequest(applied[k].payload) # None
          /\ ToTimerRequest(applied[k].payload)[1].request_id
                = ToTimerFire(applied[j].payload)[1].request_id
          /\ \A i \in DOMAIN last.out : last.out[i].event_id # applied[k].event_id

\* a + b exceeds u64::MAX, i.e. a > u64::MAX - b, the difference being the
\* bitwise complement of b
SumExceedsU64(a, b) ==
    ~MagLeq(a, Strip([ i \in 1..8 |-> 255 - PadTo(b, 8)[i] ]))

\* C22: a request whose requested_at_ns + duration_ns exceeds u64::MAX has
\* the deadline u64::MAX: pending_timers never returns it at a time below
\* u64::MAX and returns it at u64::MAX when it is not fired.
C22_DeadlineSaturates ==
    timer # NoView =>
        \A k \in DOMAIN timer.requests :
            SumExceedsU64(timer.requests[k].request.requested_at_ns,
                          timer.requests[k].request.duration_ns) =>
                \A t \in TimerTimes :
                    (\E i \in DOMAIN PendingTimers(timer, t) :
                        PendingTimers(timer, t)[i] = timer.requests[k])
                    <=> (/\ t.ns = U64Max
                         /\ timer.requests[k].request.request_id
                               \notin timer.fired_ids)

\* C22 witness: pending_timers at u64::MAX returned a request whose sum
\* overflows, which it returns at no smaller time.
C22_Witness ==
    /\ last.op = "pending_timers"
    /\ last.args.current_time.ns = U64Max
    /\ \E i \in DOMAIN last.out :
          /\ SumExceedsU64(last.out[i].request.requested_at_ns,
                           last.out[i].request.duration_ns)
          /\ last.out[i].request.duration_ns # <<>>
          /\ \A t \in TimerTimes : t.ns # U64Max =>
                \A j \in DOMAIN PendingTimers(timer, t) :
                    PendingTimers(timer, t)[j] # last.out[i]

\* An Observation tagged as a timer request whose payload is no TimerRequest
IsMalformedRequest(event) ==
    /\ event.kind = "Observation"
    /\ event.observation_type = Some(OBS_TIMER_REQUEST_V0)
    /\ ToTimerRequest(event.payload) = None

\* The view a fresh TimerView becomes when the events from position i on
\* are applied, the malformed requests among them left out
RECURSIVE WithoutMalformed(_, _, _)
WithoutMalformed(view, events, i) ==
    IF i > Len(events) THEN view
    ELSE IF IsMalformedRequest(events[i]) THEN WithoutMalformed(view, events, i + 1)
    ELSE LetIn(TimerApplyEvent(view, events[i]).view, LAMBDA next_view :
         WithoutMalformed(next_view, events, i + 1))

\* C23: apply_event on an Observation tagged OBS_TIMER_REQUEST_V0 whose
\* payload does not decode as a TimerRequest returns MalformedRequest with
\* the event's id, and the view (requests, fired, fired_ids) is the one it
\* would be had such events never been applied, so that every later
\* pending_timers result is the same.
C23_MalformedRequestRejected ==
    /\ (last.op = "timer_apply_event" /\ IsMalformedRequest(last.env)) =>
          (last.res = "MalformedRequest" /\ last.out = Some(last.env.event_id))
    /\ (last.op = "timer_apply_event" /\ last.res = "MalformedRequest") =>
          IsMalformedRequest(last.env)
    /\ timer # NoView => timer = WithoutMalformed(TimerNew, applied, 1)

\* C23 witness: a malformed request was rejected by a view that holds a
\* request and a fire.
C23_Witness ==
    /\ last.op = "timer_apply_event"
    /\ last.res = "MalformedRequest"
    /\ IsMalformedRequest(last.env)
    /\ Len(timer.requests) = 1
    /\ Len(timer.fired) = 1
    /\ Len(applied) = 3

\* The event is a well-formed timer request or a timer fire
IsTimerEvent(event) ==
    \/ /\ event.kind = "Observation"
       /\ event.observation_type = Some(OBS_TIMER_REQUEST_V0)
       /\ ToTimerRequest(event.payload) # None
    \/ /\ event.kind = "Decision"
       /\ ToTimerFire(event.payload) # None

\* The sequence with the events at positions i and j exchanged
Swapped(events, i, j) ==
    [ k \in DOMAIN events |->
        IF k = i THEN events[j] ELSE IF k = j THEN events[i] ELSE events[k] ]

\* The view of a fresh TimerView after the events from position i on
RECURSIVE TimerFold(_, _, _)
TimerFold(view, events, i) ==
    IF i > Len(events) THEN view
    ELSE LetIn(TimerApplyEvent(view, events[i]).view, LAMBDA next_view :
         TimerFold(next_view, events, i + 1))

\* C24: the set of requests pending_timers(t) returns does not depend on
\* the order in which timer requests and timer fires are applied to a fresh
\* view: exchanging any two of the applied events gives the same set at
\* every time (every order is reached by such exchanges, and every
\* sequence of events is one the specification applies).
C24_OrderIndependentSet ==
    (timer # NoView /\ \A k \in DOMAIN applied : IsTimerEvent(applied[k])) =>
        \A i \in DOMAIN applied : \A j \in DOMAIN applied :
            i < j =>
                LetIn(TimerFold(TimerNew, Swapped(applied, i, j), 1), LAMBDA other :
                    \A t \in TimerTimes :
                        Range(PendingTimers(other, t)) = Range(PendingTimers(timer, t)))

\* C24 witness: a fire was applied before a request of its id and before
\* another request, which is pending at u64::MAX.
C24_Witness ==
    /\ timer # NoView
    /\ Len(applied) = 3
    /\ \A k \in DOMAIN applied : IsTimerEvent(applied[k])
    /\ applied[1].kind = "Decision"
    /\ Len(timer.requests) = 2
    /\ timer.requests[1].request.request_id \in timer.fired_ids
    /\ Len(PendingTimers(timer, TimeUnknown)) = 0
    /\ \E t \in TimerTimes : Len(PendingTimers(timer, t)) = 1

----------------------------------------------------------------------------
(* Claims about the id allocator (specification SpecIds)                   *)

\* The orderings of a sequence
Orderings(seq) ==
    { [ i \in DOMAIN seq |-> seq[f[i]] ] :
        f \in { g \in [DOMAIN seq -> DOMAIN seq] :
                  \A i, j \in DOMAIN seq : g[i] = g[j] => i = j } }

\* The ids the calls of a log return on allocator a, from position i on
RECURSIVE Replay(_, _, _)
Replay(a, log, i) ==
    IF i > Len(log) THEN <<>>
    ELSE IF log[i].call = "reset"
         THEN << ZeroHash >> \o Replay(ResetCounter(a), log, i + 1)
    ELSE LetIn(AllocNodeId(a, log[i].operation), LAMBDA r :
         << r.id >> \o Replay(r.allocator, log, i + 1))

\* The ids the log recorded
Recorded(log) == [ i \in DOMAIN log |-> log[i].id ]

\* C25: antichain swap: for every ordering of the operations of the tick,
\* new_for_tick yields the same tick_hash, and the same calls made on the
\* allocator of that ordering return the same ids, so that the k-th
\* alloc_node_id(o) returns the same NodeId for each o.
C25_AntichainSwap ==
    allocator # NoAllocator =>
        \A other \in Orderings(calls.operations) :
            /\ NewForTick(other).tick_hash = allocator.tick_hash
            /\ Replay(NewForTick(other), calls.log, 1) = Recorded(calls.log)

\* C25 witness: the tick has three operations, two of them different and
\* given out of order, and ids were allocated for two of them.
C25_Witness ==
    /\ allocator # NoAllocator
    /\ Len(calls.operations) = 3
    /\ calls.operations # SortOps(calls.operations)
    /\ Len(calls.log) = 3
    /\ \A i \in DOMAIN calls.log : calls.log[i].call = "alloc"
    /\ calls.log[1].operation = calls.log[3].operation
    /\ calls.log[1].operation # calls.log[2].operation

\* The calls of a log that touch the counter of operation o: its own
\* allocations and the resets
CallsFor(log, o) ==
    SelectSeq(log, LAMBDA e : e.call = "reset" \/ e.operation = o)

\* C26: call-order independence: the ids returned for an operation o are
\* those a fresh allocator of the same tick_hash returns when only the calls
\* for o are made; the alloc_node_id calls for other operations interleaved
\* with them change nothing.
C26_CallOrderIndependence ==
    allocator # NoAllocator =>
        \A o \in TickOps :
            Replay(Allocator(allocator.tick_hash, << >>), CallsFor(calls.log, o), 1)
                = Recorded(CallsFor(calls.log, o))

\* C26 witness: two allocations for one operation with an allocation for
\* another operation between them.
C26_Witness ==
    /\ allocator # NoAllocator
    /\ Len(calls.log) = 3
    /\ \A i \in DOMAIN calls.log : calls.log[i].call = "alloc"
    /\ calls.log[1].operation = calls.log[3].operation
    /\ calls.log[2].operation # calls.log[1].operation
    /\ calls.log[3].id = NodeId(allocator.tick_hash, calls.log[3].operation, 1)

\* The positions of the log at which alloc_node_id was called
AllocPositions == { i \in DOMAIN calls.log : calls.log[i].call = "alloc" }

\* C27: no two alloc_node_id calls on one allocator return the same NodeId,
\* whatever alloc_node_id and reset_counter calls were made.
C27_IdsNeverRepeat ==
    \A i, j \in AllocPositions :
        calls.log[i].id = calls.log[j].id => i = j

----------------------------------------------------------------------------
(* Claims about the canonical codec (specification SpecCodec)              *)

\* decode accepted the bytes it was given
Decoded == last.op = "decode_value" /\ last.res = "Ok"

\* C31: every byte sequence the decoder accepts is canonical: encoding the
\* decoded value gives the same bytes back.
C31_AcceptedIsCanonical ==
    Decoded => EncodeValue(last.out) = EncOk(last.args.bytes)

\* C32: a strict prefix of a canonical encoding is rejected with Incomplete,
\* never decoded as a value.
C32_TruncatedIsIncomplete ==
    (last.op = "decode_value" /\ last.args.bytes \in Truncations) =>
        last.res = "Incomplete"

\* The number a finite integral float stands for, as an integer value
FloatAsInt(c) ==
    IF FIsZero(c) THEN VInt(FALSE, <<>>)
    ELSE LET mag == Strip(BitsToMag(FloatMagBits(c))) IN
         IF FSign(c) = 1 THEN VInt(TRUE, MagDec(mag)) ELSE VInt(FALSE, mag)

\* The logical value of a value: NaNs are one value, zeros and subnormals
\* are 0, an integral float is its integer, and the entries of a map are in
\* the order of their encoded keys.
RECURSIVE Logical(_)
Logical(v) ==
    CASE v.t = "float" ->
            LET c == CanonicalizeF64(v.bits) IN
            IF FIsFinite(c) /\ FIsIntegral(c) /\ FitsI128(c) THEN FloatAsInt(c)
            ELSE VFloat(c)
      [] v.t = "array" -> VArray([ i \in DOMAIN v.items |-> Logical(v.items[i]) ])
      [] v.t = "map" ->
            LET buf == SortEntries([ i \in DOMAIN v.entries |->
                           << EncodeValue(v.entries[i][1]).bytes,
                              << Logical(v.entries[i][1]), Logical(v.entries[i][2]) >> >> ])
            IN  VMap([ i \in DOMAIN buf |-> buf[i][2] ])
      [] OTHER -> v

\* C33: round trip: the encoding of an accepted value decodes to a logically
\* equal value, and encoding that value gives the same bytes again.
C33_RoundTrip ==
    (last.op = "encode_value" /\ last.res = "Ok") =>
        LET d == DecodeValue(last.out) IN
        /\ d.err = "Ok"
        /\ d.val = Logical(last.args.value)
        /\ EncodeValue(d.val) = EncOk(last.out)

\* The encoded keys of a list of entries
KeyBytes(entries) == [ i \in DOMAIN entries |-> EncodeValue(entries[i][1]).bytes ]

\* The encoded keys are strictly increasing
Increasing(keys) == \A i \in 1..(Len(keys) - 1) : BytesLess(keys[i], keys[i + 1])

\* The first position at which the encoded keys fail to increase
FirstBad(keys) ==
    CHOOSE i \in 1..(Len(keys) - 1) :
        /\ ~BytesLess(keys[i], keys[i + 1])
        /\ \A j \in 1..(i - 1) : BytesLess(keys[j], keys[j + 1])

\* C34: the encoding of a map does not depend on the order of its entries:
\* a map with two equal encoded keys is refused with DuplicateKey, any other
\* is written with its entries in the strictly increasing order of their
\* encoded keys, the same bytes for every ordering; the decoder accepts the
\* written maps whose encoded keys increase strictly and refuses the others
\* with DuplicateKey when the first offending key equals its predecessor and
\* with MapKeyOrder when it is smaller.
C34_MapOrder ==
    /\ (last.op = "encode_value" /\ last.args.value.t = "map"
            /\ last.args.value.entries \in CodecEntries) =>
          LET entries == last.args.value.entries
              keys    == KeyBytes(entries)
          IN  IF \E i, j \in DOMAIN keys : i # j /\ keys[i] = keys[j]
              THEN last.res = "DuplicateKey"
              ELSE /\ last.res = "Ok"
                   /\ \E other \in Orderings(entries) :
                        /\ Increasing(KeyBytes(other))
                        /\ last.out = WireMap(other)
                   /\ \A other \in Orderings(entries) :
                        EncodeValue(VMap(other)) = EncOk(last.out)
    /\ (last.op = "decode_value" /\ last.args.bytes \in WireMaps) =>
          \A entries \in CodecEntries :
              WireMap(entries) = last.args.bytes =>
                  LET keys == KeyBytes(entries) IN
                  IF Increasing(keys) THEN last.res = "Ok"
                  ELSE IF keys[FirstBad(keys)] = keys[FirstBad(keys) + 1]
                       THEN last.res = "DuplicateKey"
                       ELSE last.res = "MapKeyOrder"

\* C34 witness: the map with ("zebra", 1) before ("apple", 2) was encoded and
\* the bytes are those of the map with the two entries exchanged.
C34_Witness ==
    /\ last.op = "encode_value"
    /\ last.res = "Ok"
    /\ last.args.value = VMap(<< << VText(Zebra), VInt(FALSE, <<1>>) >>,
                                 << VText(Apple), VInt(FALSE, <<2>>) >> >>)
    /\ last.out = EncodeValue(VMap(<< << VText(Apple), VInt(FALSE, <<2>>) >>,
                                      << VText(Zebra), VInt(FALSE, <<1>>) >> >>)).bytes

\* C34 witness of the decoder: a written map with its keys out of order was
\* refused with MapKeyOrder.
C34_DecoderWitness ==
    /\ last.op = "decode_value"
    /\ last.args.bytes = WireMap(<< << VText(Zebra), VInt(FALSE, <<1>>) >>,
                                    << VText(Apple), VInt(FALSE, <<2>>) >> >>)
    /\ last.res = "MapKeyOrder"

\* C35: for every input, decode returns a value or a typed CanonicalError;
\* no input makes it panic.
C35_DecodeNeverPanics ==
    last.op = "decode_value" => last.res # "Panic"

----------------------------------------------------------------------------
(* Further claims about the timer view (specifications SpecTimerMixed and  *)
(* SpecTimer)                                                              *)

\* The event is neither an Observation tagged OBS_TIMER_REQUEST_V0 nor a
\* Decision whose payload decodes as a TimerFire
TimerIgnores(event) ==
    /\ ~(event.kind = "Observation"
            /\ event.observation_type = Some(OBS_TIMER_REQUEST_V0))
    /\ ~(event.kind = "Decision" /\ ToTimerFire(event.payload) # None)

\* C36: apply_event returns Ok and leaves the view (requests, fired,
\* fired_ids) as it was for every event that is neither an Observation
\* tagged OBS_TIMER_REQUEST_V0 nor a Decision whose payload decodes as a
\* TimerFire.
C36_OtherEventsIgnored ==
    [][(last'.op = "timer_apply_event" /\ TimerIgnores(last'.env)) =>
           (last'.res = "Ok" /\ timer' = timer)]_vars

\* C36 witness: a Commit that carries the payload of a fire was applied to a
\* view that holds a request and a fire.
C36_Witness ==
    /\ last.op = "timer_apply_event"
    /\ last.env.kind = "Commit"
    /\ ToTimerFire(last.env.payload) # None
    /\ TimerIgnores(last.env)
    /\ Len(timer.requests) = 1
    /\ Len(timer.fired) = 1
    /\ Len(applied) = 3

\* C37: pending_timers consults only the ns of the time it is given: two
\* times of equal ns give the same result whatever their domain and
\* uncertainty; with Time::unknown() it returns exactly the unfired requests
\* whose duration and request time are both 0; and a request whose deadline
\* lies after the given ns is not returned.
C37_OnlyNsConsulted ==
    last.op = "pending_timers" =>
        LET t == last.args.current_time IN
        /\ \A other \in MixedTimes :
              other.ns = t.ns => PendingTimers(timer, other) = last.out
        /\ t = TimeUnknown =>
              last.out = SelectSeq(timer.requests, LAMBDA record :
                            /\ record.request.request_id \notin timer.fired_ids
                            /\ record.request.duration_ns = <<>>
                            /\ record.request.requested_at_ns = <<>>)
        /\ \A i \in DOMAIN timer.requests :
              LET request == timer.requests[i].request IN
              (IsSmall(request.duration_ns) /\ IsSmall(request.requested_at_ns)
                  /\ IsSmall(t.ns)
                  /\ NatOf(request.requested_at_ns) + NatOf(request.duration_ns)
                        > NatOf(t.ns)) =>
                  \A j \in DOMAIN last.out : last.out[j] # timer.requests[i]

\* C37 witness: asked with Time::unknown(), a view that holds an unfired
\* request due at 0 and a request due at 5 returned the first alone.
C37_Witness ==
    /\ last.op = "pending_timers"
    /\ last.args.current_time = TimeUnknown
    /\ Len(timer.requests) = 2
    /\ timer.fired_ids = {}
    /\ Len(last.out) = 1
    /\ last.out[1].request.duration_ns = <<>>

\* s is t or t without its last element
GrewByAppending(s, t) ==
    \/ t = s
    \/ Len(t) = Len(s) + 1 /\ SubSeq(t, 1, Len(s)) = s

\* C38: in every state of a TimerView fired_ids is the set of the
\* request_ids of the records in fired, and apply_event changes requests and
\* fired by appending at most one record to one of them: no record is
\* removed, moved or rewritten; pending_timers changes nothing.
C38_IndexMatchesAndAppendOnly ==
    /\ [](timer # NoView =>
            timer.fired_ids =
                { timer.fired[i].fire.request_id : i \in DOMAIN timer.fired })
    /\ [][/\ last'.op = "timer_apply_event" =>
                /\ GrewByAppending(timer.requests, timer'.requests)
                /\ GrewByAppending(timer.fired, timer'.fired)
                /\ timer'.requests = timer.requests \/ timer'.fired = timer.fired
          /\ last'.op = "pending_timers" => timer' = timer]_vars

\* C38 witness: two requests of one request_id are both kept, in the order
\* they were applied, next to the record of one fire.
C38_Witness ==
    /\ last.op = "timer_apply_event"
    /\ Len(timer.requests) = 2
    /\ timer.requests[1].request.request_id = timer.requests[2].request.request_id
    /\ timer.requests[1] # timer.requests[2]
    /\ Len(timer.fired) = 1
    /\ Cardinality(timer.fired_ids) = 1

====
